---- MODULE Spec2Model ----
(***************************************************************************)
(* Model of the finance/operations backend: the Event and Workshop routes  *)
(* (list, get, update, assign-venue), the venues-route assignment, the     *)
(* budget routes (submit, approve/reject) and the expense summary.         *)
(* Each HTTP handler is one action; the Prisma tables are the variables.   *)
(***************************************************************************)
EXTENDS Integers, Sequences, FiniteSets, TLC

VARIABLES
  event,            \* prisma.event: id -> row
  workshop,         \* prisma.workshop: id -> row
  budget,           \* prisma.budget / prisma.workshopBudget: <<owner id, categoryId>> -> row
  budgetApproval,   \* prisma.budgetApproval / prisma.workshopBudgetApproval: owner id -> rows, oldest first
  expense,          \* prisma.expense / prisma.workshopExpense: set of rows
  activityLog,      \* prisma.activityLog rows written by the handlers, oldest first
  user,             \* prisma.user: the ids of the stored users
  smtp,             \* the mail transport: "up", or "down" (sendEmail throws)
  probe,            \* inputs and result of one evaluation of the conflict where-clause
  pending,          \* assign-venue requests between their conflict queries and their update
  resp              \* the last HTTP response: operation, status code, error text, payload

vars == <<event, workshop, budget, budgetApproval, expense, activityLog, user, smtp, probe, pending, resp>>
db == <<event, workshop, budget, budgetApproval, expense, activityLog, user>>

----------------------------------------------------------------------------
\* Bounds of the model

MaxDate == 3
MaxApprovals == 2
MaxLog == 1
MaxExpenses == 2
MaxAmount == 2
MaxInFlight == 2

----------------------------------------------------------------------------
\* Values

NULL == "NULL"
NoDate == 0
Dates == 1..MaxDate
DateOrNull == Dates \cup {NoDate}

EventIds == {"e1", "e2"}
WorkshopIds == {"w1"}
BookableIds == EventIds \cup WorkshopIds
UnknownId == "x9"

VenueIds == {"v1", "v2"}
UnknownVenue == "v9"

CategoryIds == {"c1", "c2"}

Users == {"adm", "fin", "fac", "etl1", "etl2", "ecd", "wtl", "wcd"}

RoleOf(u) ==
  CASE u = "adm" -> "ADMIN"
    [] u = "fin" -> "FINANCE_TEAM"
    [] u = "fac" -> "FACILITIES_TEAM"
    [] u \in {"etl1", "etl2"} -> "EVENT_TEAM_LEAD"
    [] u = "ecd" -> "EVENT_COORDINATOR"
    [] u = "wtl" -> "WORKSHOP_TEAM_LEAD"
    [] u = "wcd" -> "WORKSHOP_COORDINATOR"

\* authorize([...]) of middleware/auth: a static role allow-list per route.
Authorize(u, allowed) == RoleOf(u) \in allowed

\* The status filter left out of the conflict queries.
AnyStatus == {"PENDING", "APPROVED", "REJECTED", "COMPLETED"}

\* status: { in: ['APPROVED', 'PENDING'] }
ActiveStatuses == {"APPROVED", "PENDING"}
Statuses == {"PENDING", "APPROVED", "REJECTED", "COMPLETED"}

----------------------------------------------------------------------------
\* Responses

Reply(op, u, code, error, out) ==
  resp' = [op |-> op, caller |-> u, code |-> code, error |-> error, out |-> out]

Fail(op, u, code, error) == Reply(op, u, code, error, {}) /\ UNCHANGED <<db, smtp, probe, pending>>

Forbidden(op, u) == Fail(op, u, 403, "Insufficient permissions")

\* An email block without its own try/catch: a throw of sendEmail leaves it.
EscapesUncaught(throws) == throws

\* try { ... await sendEmail(...) } catch (emailError) { console.error(...) }:
\* a throw of sendEmail does not leave the block.
EscapesTry(throws) == FALSE

\* The response after the handler's writes and its email block: the success
\* response, or the outer catch's 500 if the email block let a throw out.
ReplyAfterEmail(op, u, code, out, attempted, failure) ==
  IF EscapesTry(attempted /\ smtp = "down")
    THEN Reply(op, u, 500, failure, {})
    ELSE Reply(op, u, code, "", out)

----------------------------------------------------------------------------
\* The venue conflict where-clause

\* Prisma lte/gte on a DateTime column: a NULL column matches nothing.
DateLte(a, b) == a # NoDate /\ b # NoDate /\ a <= b

\* The where-clause without its third branch (candidate contains existing).
ConflictWhereTwoWay(s2, e2, s, e) ==
  \/ DateLte(s2, s) /\ DateLte(s, e2)
  \/ DateLte(s2, e) /\ DateLte(e, e2)

\* The three-way OR of the assign-venue where-clause, for an existing row
\* [s2, e2] and the candidate's [s, e].
ConflictWhere(s2, e2, s, e) ==
  \/ DateLte(s2, s) /\ DateLte(s, e2)
  \/ DateLte(s2, e) /\ DateLte(e, e2)
  \/ DateLte(s, s2) /\ DateLte(e2, e)

\* conflictingEvents of the event route: same venue, not the candidate itself,
\* status APPROVED or PENDING, and the where-clause.
EventConflictingEvents(id, venueId, s, e) ==
  {x \in DOMAIN event :
      /\ event[x].venueId = venueId
      /\ x # id
      /\ event[x].status \in ActiveStatuses
      /\ ConflictWhere(event[x].startDate, event[x].endDate, s, e)}

\* The event route without its query on workshops.
EventIgnoresWorkshops(venueId, s, e) == {}

\* conflictingWorkshops of the event route.
EventConflictingWorkshops(venueId, s, e) ==
  {x \in DOMAIN workshop :
      /\ workshop[x].venueId = venueId
      /\ workshop[x].status \in ActiveStatuses
      /\ ConflictWhere(workshop[x].startDate, workshop[x].endDate, s, e)}

\* conflictingWorkshops of the workshop route.
WorkshopConflictingWorkshops(id, venueId, s, e) ==
  {x \in DOMAIN workshop :
      /\ workshop[x].venueId = venueId
      /\ x # id
      /\ workshop[x].status \in ActiveStatuses
      /\ ConflictWhere(workshop[x].startDate, workshop[x].endDate, s, e)}

\* conflictingEvents of the workshop route.
WorkshopConflictingEvents(venueId, s, e) ==
  {x \in DOMAIN event :
      /\ event[x].venueId = venueId
      /\ event[x].status \in ActiveStatuses
      /\ ConflictWhere(event[x].startDate, event[x].endDate, s, e)}

----------------------------------------------------------------------------
\* Assign venue (events and workshops routes)

\* 'events' / 'workshops' of the handlers' messages.
Plural(what) == IF what = "Event" THEN "events" ELSE "workshops"

\* The test with || in place of &&.
HasDatesEither(row) == row.startDate # NoDate \/ row.endDate # NoDate

\* if (event.startDate && event.endDate): both conflict queries are inside.
HasDates(row) == row.startDate # NoDate /\ row.endDate # NoDate

\* The early returns with the venue lookup moved before the status test.
AssignVenueCheckVenueFirst(table, id, venueId, what) ==
  IF venueId = NULL THEN [code |-> 400, error |-> "Venue ID is required"]
  ELSE IF id \notin DOMAIN table THEN [code |-> 404, error |-> what \o " not found"]
  ELSE IF venueId \notin VenueIds THEN [code |-> 404, error |-> "Venue not found"]
  ELSE IF table[id].status # "APPROVED"
    THEN [code |-> 400, error |-> "Venue can only be assigned to approved " \o Plural(what)]
  ELSE [code |-> 200, error |-> ""]

\* The early returns of assign-venue before the conflict queries, in the
\* handler's order: venueId given, row found, status APPROVED, venue found.
AssignVenueCheck(table, id, venueId, what) ==
  IF venueId = NULL THEN [code |-> 400, error |-> "Venue ID is required"]
  ELSE IF id \notin DOMAIN table THEN [code |-> 404, error |-> what \o " not found"]
  ELSE IF table[id].status # "APPROVED"
    THEN [code |-> 400, error |-> "Venue can only be assigned to approved " \o Plural(what)]
  ELSE IF venueId \notin VenueIds THEN [code |-> 404, error |-> "Venue not found"]
  ELSE [code |-> 200, error |-> ""]

AssignVenueLog(entity, id, old, new, u) ==
  [action |-> "ASSIGN_VENUE", entity |-> entity, entityId |-> id,
   oldValues |-> old, newValues |-> new, userId |-> u]

\* The conflict branch with the update and the audit entry run before it.
VenueConflictAfterUpdate(op, u, entity, id, venueId, hits) ==
  /\ Len(activityLog) < MaxLog
  /\ IF entity = "Event"
       THEN /\ event' = [event EXCEPT ![id].venueId = venueId]
            /\ activityLog' = Append(activityLog, AssignVenueLog(entity, id, event[id].venueId, venueId, u))
            /\ UNCHANGED workshop
       ELSE /\ workshop' = [workshop EXCEPT ![id].venueId = venueId]
            /\ activityLog' = Append(activityLog, AssignVenueLog(entity, id, workshop[id].venueId, venueId, u))
            /\ UNCHANGED event
  /\ Reply(op, u, 409, "Venue conflict detected", hits)
  /\ UNCHANGED <<budget, budgetApproval, expense, user, smtp, probe, pending>>

\* if (conflicting.length > 0) return res.status(409): the handler returns
\* before prisma.<table>.update and prisma.activityLog.create.
VenueConflict(op, u, entity, id, venueId, hits) ==
  Reply(op, u, 409, "Venue conflict detected", hits) /\ UNCHANGED <<db, smtp, probe, pending>>

AssignVenueEvent(u, id, venueId) ==
  LET op == "assignVenueEvent"
      chk == AssignVenueCheck(event, id, venueId, "Event")
  IN
  IF ~Authorize(u, {"ADMIN", "FACILITIES_TEAM"}) THEN Forbidden(op, u)
  ELSE IF chk.code # 200 THEN Fail(op, u, chk.code, chk.error)
  ELSE
    LET e == event[id]
        dated == HasDates(e)
        ce == IF dated THEN EventConflictingEvents(id, venueId, e.startDate, e.endDate) ELSE {}
        cw == IF dated THEN EventConflictingWorkshops(venueId, e.startDate, e.endDate) ELSE {}
    IN
    IF ce # {} THEN VenueConflict(op, u, "Event", id, venueId, ce)
    ELSE IF cw # {} THEN VenueConflict(op, u, "Event", id, venueId, cw)
    ELSE
      /\ Len(activityLog) < MaxLog
      /\ event' = [event EXCEPT ![id].venueId = venueId]
      /\ activityLog' = Append(activityLog, AssignVenueLog("Event", id, e.venueId, venueId, u))
      /\ Reply(op, u, 200, "", {id})
      /\ UNCHANGED <<workshop, budget, budgetApproval, expense, user, smtp, probe, pending>>

AssignVenueWorkshop(u, id, venueId) ==
  LET op == "assignVenueWorkshop"
      chk == AssignVenueCheck(workshop, id, venueId, "Workshop")
  IN
  IF ~Authorize(u, {"ADMIN", "FACILITIES_TEAM"}) THEN Forbidden(op, u)
  ELSE IF chk.code # 200 THEN Fail(op, u, chk.code, chk.error)
  ELSE
    LET w == workshop[id]
        dated == HasDates(w)
        cw == IF dated THEN WorkshopConflictingWorkshops(id, venueId, w.startDate, w.endDate) ELSE {}
        ce == IF dated THEN WorkshopConflictingEvents(venueId, w.startDate, w.endDate) ELSE {}
    IN
    IF cw # {} THEN VenueConflict(op, u, "Workshop", id, venueId, cw)
    ELSE IF ce # {} THEN VenueConflict(op, u, "Workshop", id, venueId, ce)
    ELSE
      /\ Len(activityLog) < MaxLog
      /\ workshop' = [workshop EXCEPT ![id].venueId = venueId]
      /\ activityLog' = Append(activityLog, AssignVenueLog("Workshop", id, w.venueId, venueId, u))
      /\ Reply(op, u, 200, "", {id})
      /\ UNCHANGED <<event, budget, budgetApproval, expense, user, smtp, probe, pending>>

\* The same handlers as two steps. Each await is a point where another
\* request may run: the step up to the last conflict query, and the step of
\* the update and the audit entry.
InFlight(entity, u, id, venueId, old) ==
  [entity |-> entity, caller |-> u, id |-> id, venueId |-> venueId, old |-> old,
   stage |-> "queried"]

AssignVenueOp(entity) == IF entity = "Event" THEN "assignVenueEvent" ELSE "assignVenueWorkshop"

\* The two conflict queries of the route of the entity, in the handler's order.
ConflictQueries(entity, id, venueId, s, e) ==
  IF entity = "Event"
    THEN <<EventConflictingEvents(id, venueId, s, e), EventConflictingWorkshops(venueId, s, e)>>
    ELSE <<WorkshopConflictingWorkshops(id, venueId, s, e), WorkshopConflictingEvents(venueId, s, e)>>

\* Up to the conflict queries: the request is answered, or it goes on to
\* its update with the row it read.
AssignVenueQuery(u, entity, id, venueId) ==
  LET op == AssignVenueOp(entity)
      table == IF entity = "Event" THEN event ELSE workshop
      chk == AssignVenueCheck(table, id, venueId, entity)
  IN
  IF ~Authorize(u, {"ADMIN", "FACILITIES_TEAM"}) THEN Forbidden(op, u)
  ELSE IF chk.code # 200 THEN Fail(op, u, chk.code, chk.error)
  ELSE
    LET r == table[id]
        dated == HasDates(r)
        hits == IF dated THEN ConflictQueries(entity, id, venueId, r.startDate, r.endDate)
                ELSE <<{}, {}>>
    IN
    IF hits[1] # {} THEN VenueConflict(op, u, entity, id, venueId, hits[1])
    ELSE IF hits[2] # {} THEN VenueConflict(op, u, entity, id, venueId, hits[2])
    ELSE
      /\ Len(activityLog) + Cardinality(pending) < MaxInFlight
      /\ pending' = pending \cup {InFlight(entity, u, id, venueId, r.venueId)}
      /\ UNCHANGED <<db, smtp, probe, resp>>

\* The update with the conflict queries run again in the same step.
AssignVenueWriteRechecked(p) ==
  LET row == IF p.entity = "Event" THEN event[p.id] ELSE workshop[p.id]
      hits == ConflictQueries(p.entity, p.id, p.venueId, row.startDate, row.endDate)
  IN
  /\ p \in pending
  /\ pending' = pending \ {p}
  /\ IF hits[1] \cup hits[2] # {}
       THEN /\ Reply(AssignVenueOp(p.entity), p.caller, 409, "Venue conflict detected", hits[1] \cup hits[2])
            /\ UNCHANGED <<db, smtp, probe>>
       ELSE /\ IF p.entity = "Event"
                 THEN event' = [event EXCEPT ![p.id].venueId = p.venueId] /\ UNCHANGED workshop
                 ELSE workshop' = [workshop EXCEPT ![p.id].venueId = p.venueId] /\ UNCHANGED event
            /\ activityLog' = Append(activityLog, AssignVenueLog(p.entity, p.id, p.old, p.venueId, p.caller))
            /\ Reply(AssignVenueOp(p.entity), p.caller, 200, "", {p.id})
            /\ UNCHANGED <<budget, budgetApproval, expense, user, smtp, probe>>

\* prisma.<table>.update({ where: { id }, data: { venueId } }) and the
\* ASSIGN_VENUE entry with the venueId read before the queries.
AssignVenueWrite(p) ==
  /\ p \in pending
  /\ pending' = pending \ {p}
  /\ IF p.entity = "Event"
       THEN event' = [event EXCEPT ![p.id].venueId = p.venueId] /\ UNCHANGED workshop
       ELSE workshop' = [workshop EXCEPT ![p.id].venueId = p.venueId] /\ UNCHANGED event
  /\ activityLog' = Append(activityLog, AssignVenueLog(p.entity, p.id, p.old, p.venueId, p.caller))
  /\ Reply(AssignVenueOp(p.entity), p.caller, 200, "", {p.id})
  /\ UNCHANGED <<budget, budgetApproval, expense, user, smtp, probe>>

\* The update and the audit entry as the two awaited statements they are.
\* await prisma.<table>.update({ where: { id }, data: { venueId } })
AssignVenueUpdate(p) ==
  /\ p \in pending /\ p.stage = "queried"
  /\ pending' = (pending \ {p}) \cup {[p EXCEPT !.stage = "updated"]}
  /\ IF p.entity = "Event"
       THEN event' = [event EXCEPT ![p.id].venueId = p.venueId] /\ UNCHANGED workshop
       ELSE workshop' = [workshop EXCEPT ![p.id].venueId = p.venueId] /\ UNCHANGED event
  /\ UNCHANGED <<budget, budgetApproval, expense, activityLog, user, smtp, probe, resp>>

\* await prisma.activityLog.create(...); res.json(updated)
AssignVenueAudit(p) ==
  /\ p \in pending /\ p.stage = "updated"
  /\ pending' = pending \ {p}
  /\ activityLog' = Append(activityLog, AssignVenueLog(p.entity, p.id, p.old, p.venueId, p.caller))
  /\ Reply(AssignVenueOp(p.entity), p.caller, 200, "", {p.id})
  /\ UNCHANGED <<event, workshop, budget, budgetApproval, expense, user, smtp, probe>>

\* prisma.activityLog.create rejects: the handler's catch answers 500; the
\* update before it is not undone.
AssignVenueAuditFails(p) ==
  /\ p \in pending /\ p.stage = "updated"
  /\ pending' = pending \ {p}
  /\ Reply(AssignVenueOp(p.entity), p.caller, 500,
           IF p.entity = "Event" THEN "Failed to assign venue to event"
           ELSE "Failed to assign venue to workshop", {})
  /\ UNCHANGED <<db, smtp, probe>>

\* venues route: POST /:venueId/assign/:eventId. No status check and no
\* conflict query; the email to the coordinator is best-effort.
VenuesRouteAssign(u, venueId, eventId) ==
  LET op == "venuesRouteAssign" IN
  IF ~Authorize(u, {"ADMIN", "FACILITIES_TEAM"}) THEN Forbidden(op, u)
  ELSE IF eventId \notin DOMAIN event THEN Fail(op, u, 404, "Event not found")
  ELSE IF venueId \notin VenueIds THEN Fail(op, u, 404, "Venue not found")
  ELSE
    /\ event' = [event EXCEPT ![eventId].venueId = venueId]
    /\ Reply(op, u, 200, "", {eventId})
    /\ UNCHANGED <<workshop, budget, budgetApproval, expense, activityLog, user, smtp, probe, pending>>

----------------------------------------------------------------------------
\* Update (PUT /:id) of the events and workshops routes

\* The request body is a partial row: a function from the supplied field
\* names to their values.
Merge(row, data) == [f \in DOMAIN row |-> IF f \in DOMAIN data THEN data[f] ELSE row[f]]

Restrict(data, fields) == [f \in DOMAIN data \cap fields |-> data[f]]

\* allowedFields of the event route, of the columns the model keeps.
EventAllowedFields == {"title", "coordinatorEmail", "startDate", "endDate", "venueId"}

\* body('title').optional().notEmpty()
UpdateBodyValid(body) == "title" \in DOMAIN body => body.title # ""

\* prisma.user.findUnique({ email, role, isActive: true }): emails are the user ids.
FindCoordinator(email, role) == {c \in user : c = email /\ RoleOf(c) = role}

\* The ownership check left out.
NotCreatorIgnored(role, leadRole, creatorId, u) == FALSE

\* role === <the route's team lead> && existing.creatorId !== userId
NotCreator(role, leadRole, creatorId, u) == role = leadRole /\ creatorId # u

\* The guard with REJECTED refused too.
UpdateGuardPendingOnly(role, leadRole, status) ==
  role = leadRole /\ status # "PENDING"

\* The team-lead guard: only the route's own team-lead role is checked.
UpdateGuard(role, leadRole, status) ==
  role = leadRole /\ status # "PENDING" /\ status # "REJECTED"

\* The row prisma.update writes: updateData without coordinatorEmail (kept
\* as coordinatorId), merged into the stored row.
UpdateData(data, coordRole) ==
  LET plain == Restrict(data, DOMAIN data \ {"coordinatorEmail"})
  IN IF "coordinatorEmail" \in DOMAIN data
       THEN [f \in DOMAIN plain \cup {"coordinatorId"} |->
               IF f = "coordinatorId"
                 THEN CHOOSE c \in FindCoordinator(data.coordinatorEmail, coordRole) : TRUE
                 ELSE plain[f]]
       ELSE plain

\* A venueId that names no venue violates the foreign key: prisma.update throws.
UpdateWritable(data) == "venueId" \in DOMAIN data => data.venueId \in VenueIds \cup {NULL}

UpdateEvent(u, id, body) ==
  LET op == "updateEvent"
      data == Restrict(body, EventAllowedFields)
  IN
  IF ~UpdateBodyValid(body) THEN Fail(op, u, 400, "Invalid input")
  ELSE IF id \notin DOMAIN event THEN Fail(op, u, 404, "Event not found")
  ELSE IF NotCreator(RoleOf(u), "EVENT_TEAM_LEAD", event[id].creatorId, u)
    THEN Fail(op, u, 403, "Access denied")
  ELSE IF UpdateGuard(RoleOf(u), "EVENT_TEAM_LEAD", event[id].status)
    THEN Fail(op, u, 400, "Cannot edit approved or completed events")
  ELSE IF "coordinatorEmail" \in DOMAIN body
          /\ FindCoordinator(body.coordinatorEmail, "EVENT_COORDINATOR") = {}
    THEN Fail(op, u, 400, "Coordinator not found with the provided email")
  ELSE IF ~UpdateWritable(data) THEN Fail(op, u, 500, "Failed to update event")
  ELSE
    /\ event' = [event EXCEPT ![id] = Merge(@, UpdateData(data, "EVENT_COORDINATOR"))]
    /\ Reply(op, u, 200, "", {id})
    /\ UNCHANGED <<workshop, budget, budgetApproval, expense, activityLog, user, smtp, probe, pending>>

\* The workshop route passes the whole body to prisma.update: updateData = { ...req.body }.
UpdateWorkshop(u, id, body) ==
  LET op == "updateWorkshop"
      data == body
  IN
  IF ~UpdateBodyValid(body) THEN Fail(op, u, 400, "Invalid input")
  ELSE IF id \notin DOMAIN workshop THEN Fail(op, u, 404, "Workshop not found")
  ELSE IF NotCreator(RoleOf(u), "WORKSHOP_TEAM_LEAD", workshop[id].creatorId, u)
    THEN Fail(op, u, 403, "Access denied")
  ELSE IF UpdateGuard(RoleOf(u), "WORKSHOP_TEAM_LEAD", workshop[id].status)
    THEN Fail(op, u, 400, "Cannot edit approved or completed workshops")
  ELSE IF "coordinatorEmail" \in DOMAIN body
          /\ FindCoordinator(body.coordinatorEmail, "WORKSHOP_COORDINATOR") = {}
    THEN Fail(op, u, 400, "Workshop coordinator not found with the provided email")
  ELSE IF ~UpdateWritable(data) THEN Fail(op, u, 500, "Failed to update workshop")
  ELSE
    /\ workshop' = [workshop EXCEPT ![id] = Merge(@, UpdateData(data, "WORKSHOP_COORDINATOR"))]
    /\ Reply(op, u, 200, "", {id})
    /\ UNCHANGED <<event, budget, budgetApproval, expense, activityLog, user, smtp, probe, pending>>

\* The update handlers as two steps: up to the last read (findUnique of the
\* row, the guards, the coordinator lookup), and prisma.update with the
\* response.
UpdateInFlight(entity, u, id, body) ==
  [entity |-> entity, caller |-> u, id |-> id, body |-> body, stage |-> "guarded"]

UpdateOp(entity) == IF entity = "Event" THEN "updateEvent" ELSE "updateWorkshop"

UpdateRead(u, entity, id, body) ==
  LET op == UpdateOp(entity)
      table == IF entity = "Event" THEN event ELSE workshop
      leadRole == IF entity = "Event" THEN "EVENT_TEAM_LEAD" ELSE "WORKSHOP_TEAM_LEAD"
      coordRole == IF entity = "Event" THEN "EVENT_COORDINATOR" ELSE "WORKSHOP_COORDINATOR"
  IN
  IF ~UpdateBodyValid(body) THEN Fail(op, u, 400, "Invalid input")
  ELSE IF id \notin DOMAIN table THEN Fail(op, u, 404, entity \o " not found")
  ELSE IF NotCreator(RoleOf(u), leadRole, table[id].creatorId, u)
    THEN Fail(op, u, 403, "Access denied")
  ELSE IF UpdateGuard(RoleOf(u), leadRole, table[id].status)
    THEN Fail(op, u, 400, "Cannot edit approved or completed " \o Plural(entity))
  ELSE IF "coordinatorEmail" \in DOMAIN body /\ FindCoordinator(body.coordinatorEmail, coordRole) = {}
    THEN Fail(op, u, 400,
              IF entity = "Event" THEN "Coordinator not found with the provided email"
              ELSE "Workshop coordinator not found with the provided email")
  ELSE
    /\ Cardinality(pending) < MaxInFlight
    /\ pending' = pending \cup {UpdateInFlight(entity, u, id, body)}
    /\ UNCHANGED <<db, smtp, probe, resp>>

\* await prisma.<table>.update({ where: { id }, data: updateData }); res.json
UpdateWrite(p) ==
  LET op == UpdateOp(p.entity)
      data == IF p.entity = "Event" THEN Restrict(p.body, EventAllowedFields) ELSE p.body
      coordRole == IF p.entity = "Event" THEN "EVENT_COORDINATOR" ELSE "WORKSHOP_COORDINATOR"
  IN
  /\ p \in pending /\ p.stage = "guarded"
  /\ pending' = pending \ {p}
  /\ IF ~UpdateWritable(data)
       THEN /\ Reply(op, p.caller, 500,
                     IF p.entity = "Event" THEN "Failed to update event"
                     ELSE "Failed to update workshop", {})
            /\ UNCHANGED <<db, smtp, probe>>
       ELSE /\ IF p.entity = "Event"
                 THEN /\ event' = [event EXCEPT ![p.id] = Merge(@, UpdateData(data, coordRole))]
                      /\ UNCHANGED workshop
                 ELSE /\ workshop' = [workshop EXCEPT ![p.id] = Merge(@, UpdateData(data, coordRole))]
                      /\ UNCHANGED event
            /\ Reply(op, p.caller, 200, "", {p.id})
            /\ UNCHANGED <<budget, budgetApproval, expense, activityLog, user, smtp, probe>>

----------------------------------------------------------------------------
\* Budgets: submit (POST /event/:eventId) and approve/reject (POST .../approve)

NoAmount == -1

\* The table the owner id belongs to.
IsEvent(id) == id \in DOMAIN event
IsWorkshop(id) == id \in DOMAIN workshop

\* body('budgets.*.amount').isFloat({ min: 0 }), sponsorAmount optional and >= 0
\* body('budgets').isArray(): an array is a function on 1..n.
IsArray(v) == DOMAIN v = 1..Cardinality(DOMAIN v)

\* The validators without the minimum of amount.
SubmitBodyValidNoMin(lines) ==
  /\ IsArray(lines)
  /\ \A i \in 1..Len(lines) :
        lines[i].sponsorAmount = NoAmount \/ lines[i].sponsorAmount >= 0

\* body('budgets').isArray(), body('budgets.*.amount').isFloat({ min: 0 }),
\* body('budgets.*.sponsorAmount').optional().isFloat({ min: 0 })
SubmitBodyValid(lines) ==
  /\ IsArray(lines)
  /\ \A i \in 1..Len(lines) :
        /\ lines[i].amount >= 0
        /\ lines[i].sponsorAmount = NoAmount \/ lines[i].sponsorAmount >= 0

\* sponsorAmount || 0
OrZero(x) == IF x = NoAmount THEN 0 ELSE x

\* prisma.budget.upsert on the unique key (owner, category): the update
\* branch writes amount, sponsorAmount and remarks only.
Upsert(b, id, line) ==
  LET key == <<id, line.categoryId>>
      created == [amount |-> line.amount, sponsorAmount |-> OrZero(line.sponsorAmount),
                  approvedAmount |-> NoAmount, remarks |-> line.remarks]
      updated == [amount |-> line.amount, sponsorAmount |-> OrZero(line.sponsorAmount),
                  approvedAmount |-> b[key].approvedAmount, remarks |-> line.remarks]
  IN [k \in DOMAIN b \cup {key} |->
        IF k # key THEN b[k] ELSE IF key \in DOMAIN b THEN updated ELSE created]

RECURSIVE UpsertAll(_, _, _)
UpsertAll(b, id, lines) ==
  IF lines = <<>> THEN b ELSE UpsertAll(Upsert(b, id, Head(lines)), id, Tail(lines))

\* Two upserts of one call that both find no row for the same key race on
\* the unique constraint: the loser's create throws.
RacingCreates(id, lines) ==
  {i \in 1..Len(lines) :
     /\ <<id, lines[i].categoryId>> \notin DOMAIN budget
     /\ \E j \in 1..Len(lines) : j # i /\ lines[j].categoryId = lines[i].categoryId}

\* A categoryId that names no category violates the foreign key.
SubmitWritable(lines) == \A i \in 1..Len(lines) : lines[i].categoryId \in CategoryIds

\* The message of the submit handler's catch block.
SaveFailed(what) ==
  IF what = "Event" THEN "Failed to save budgets" ELSE "Failed to save workshop budgets"

\* A submit that also returns the bookable to PENDING.
SubmitBudgetResetsStatus(u, id, lines, table, leadRole, op, what) ==
  IF ~Authorize(u, {leadRole, "FINANCE_TEAM", "ADMIN"}) THEN Forbidden(op, u)
  ELSE IF ~SubmitBodyValid(lines) THEN Fail(op, u, 400, "Invalid input")
  ELSE IF id \notin DOMAIN table THEN Fail(op, u, 404, what \o " not found")
  ELSE IF ~SubmitWritable(lines) THEN Fail(op, u, 500, SaveFailed(what))
  ELSE
    /\ budget' = UpsertAll(budget, id, lines)
    /\ IF what = "Event"
         THEN event' = [event EXCEPT ![id].status = "PENDING"] /\ UNCHANGED workshop
         ELSE workshop' = [workshop EXCEPT ![id].status = "PENDING"] /\ UNCHANGED event
    /\ Reply(op, u, 200, "", {})
    /\ UNCHANGED <<budgetApproval, expense, activityLog, user, smtp, probe, pending>>

SubmitBudget(u, id, lines, table, leadRole, op, what) ==
  IF ~Authorize(u, {leadRole, "FINANCE_TEAM", "ADMIN"}) THEN Forbidden(op, u)
  ELSE IF ~SubmitBodyValid(lines) THEN Fail(op, u, 400, "Invalid input")
  ELSE IF id \notin DOMAIN table THEN Fail(op, u, 404, what \o " not found")
  ELSE IF ~SubmitWritable(lines) THEN
    \* the upserts that name a category still run; Promise.all rejects
    /\ budget' = UpsertAll(budget, id, SelectSeq(lines, LAMBDA l : l.categoryId \in CategoryIds))
    /\ Reply(op, u, 500, SaveFailed(what), {})
    /\ UNCHANGED <<event, workshop, budgetApproval, expense, activityLog, user, smtp, probe, pending>>
  ELSE
    \/ /\ budget' = UpsertAll(budget, id, lines)
       /\ ReplyAfterEmail(op, u, 200, {l.categoryId : l \in {lines[i] : i \in 1..Len(lines)}},
                          RoleOf(u) = leadRole, SaveFailed(what))
       /\ UNCHANGED <<event, workshop, budgetApproval, expense, activityLog, user, smtp, probe, pending>>
    \/ \E i \in RacingCreates(id, lines) :
         /\ budget' = UpsertAll(budget, id,
                        SelectSeq(lines, LAMBDA l : l.categoryId # lines[i].categoryId) \o <<lines[i]>>)
         /\ Reply(op, u, 500, SaveFailed(what), {})
         /\ UNCHANGED <<event, workshop, budgetApproval, expense, activityLog, user, smtp, probe, pending>>

SubmitBudgetEvent(u, id, lines) ==
  SubmitBudget(u, id, lines, event, "EVENT_TEAM_LEAD", "submitBudgetEvent", "Event")

SubmitBudgetWorkshop(u, id, lines) ==
  SubmitBudget(u, id, lines, workshop, "WORKSHOP_TEAM_LEAD", "submitBudgetWorkshop", "Workshop")

\* body('status').isIn(['APPROVED', 'REJECTED']), body('remarks').notEmpty()
ReviewBodyValid(status, remarks) == status \in {"APPROVED", "REJECTED"} /\ remarks # ""

\* prisma.budget.update of one adjustment: approvedAmount and sponsorAmount.
Adjust(b, id, adj) ==
  [b EXCEPT ![<<id, adj.categoryId>>] =
      [@ EXCEPT !.approvedAmount = adj.approvedAmount, !.sponsorAmount = OrZero(adj.sponsorAmount)]]

RECURSIVE AdjustAll(_, _, _)
AdjustAll(b, id, adjs) ==
  IF adjs = <<>> THEN b ELSE AdjustAll(Adjust(b, id, Head(adjs)), id, Tail(adjs))

\* An adjustment whose (owner, category) has no budget row: prisma.update throws.
AdjustFound(id, adj) == <<id, adj.categoryId>> \in DOMAIN budget

ApprovalRow(u, status, remarks) == [reviewerId |-> u, status |-> status, remarks |-> remarks]

\* The status the review writes on the event or workshop.
ReviewStatus(status, old) == IF status = "APPROVED" THEN "APPROVED" ELSE "REJECTED"

\* A history that keeps the latest row only.
RecordApprovalReplace(rows, row) == <<row>>

\* budgetApproval.create: the new row goes after the existing ones.
RecordApproval(rows, row) == Append(rows, row)

ReviewBudgetEvent(u, id, status, remarks, adjs) ==
  LET op == "reviewBudgetEvent" IN
  IF ~Authorize(u, {"FINANCE_TEAM", "ADMIN"}) THEN Forbidden(op, u)
  ELSE IF ~ReviewBodyValid(status, remarks) THEN Fail(op, u, 400, "Invalid input")
  ELSE IF id \notin DOMAIN event THEN Fail(op, u, 404, "Event not found")
  ELSE IF \E i \in 1..Len(adjs) : ~AdjustFound(id, adjs[i]) THEN
    \* Promise.all rejects; the updates that found their row are applied
    /\ budget' = AdjustAll(budget, id, SelectSeq(adjs, LAMBDA a : AdjustFound(id, a)))
    /\ Reply(op, u, 500, "Failed to approve/reject budget", {})
    /\ UNCHANGED <<event, workshop, budgetApproval, expense, activityLog, user, smtp, probe, pending>>
  ELSE
    /\ Len(budgetApproval[id]) < MaxApprovals
    /\ budget' = AdjustAll(budget, id, adjs)
    /\ budgetApproval' = [budgetApproval EXCEPT ![id] = RecordApproval(@, ApprovalRow(u, status, remarks))]
    /\ event' = [event EXCEPT ![id].status = ReviewStatus(status, @)]
    /\ ReplyAfterEmail(op, u, 200, {id}, TRUE, "Failed to approve/reject budget")
    /\ UNCHANGED <<workshop, expense, activityLog, user, smtp, probe, pending>>

ReviewBudgetWorkshop(u, id, status, remarks, adjs) ==
  LET op == "reviewBudgetWorkshop" IN
  IF ~Authorize(u, {"FINANCE_TEAM", "ADMIN"}) THEN Forbidden(op, u)
  ELSE IF ~ReviewBodyValid(status, remarks) THEN Fail(op, u, 400, "Invalid input")
  ELSE IF id \notin DOMAIN workshop THEN Fail(op, u, 404, "Workshop not found")
  ELSE IF \E i \in 1..Len(adjs) : ~AdjustFound(id, adjs[i]) THEN
    /\ budget' = AdjustAll(budget, id, SelectSeq(adjs, LAMBDA a : AdjustFound(id, a)))
    /\ Reply(op, u, 500, "Failed to approve/reject workshop budget", {})
    /\ UNCHANGED <<event, workshop, budgetApproval, expense, activityLog, user, smtp, probe, pending>>
  ELSE
    /\ Len(budgetApproval[id]) < MaxApprovals
    /\ budget' = AdjustAll(budget, id, adjs)
    /\ budgetApproval' = [budgetApproval EXCEPT ![id] = RecordApproval(@, ApprovalRow(u, status, remarks))]
    /\ workshop' = [workshop EXCEPT ![id].status = ReviewStatus(status, @)]
    /\ ReplyAfterEmail(op, u, 200, {id}, TRUE, "Failed to approve/reject workshop budget")
    /\ UNCHANGED <<event, expense, activityLog, user, smtp, probe, pending>>

\* The review handlers as two steps, for a body without budgetAdjustments:
\* up to budgetApproval.create, and the status update with the response.
ReviewInFlight(entity, u, id, status) ==
  [entity |-> entity, caller |-> u, id |-> id, status |-> status, stage |-> "recorded"]

ReviewOp(entity) == IF entity = "Event" THEN "reviewBudgetEvent" ELSE "reviewBudgetWorkshop"

ReviewFailed(entity) ==
  IF entity = "Event" THEN "Failed to approve/reject budget"
  ELSE "Failed to approve/reject workshop budget"

ReviewRecord(u, entity, id, status, remarks) ==
  LET op == ReviewOp(entity)
      table == IF entity = "Event" THEN event ELSE workshop
  IN
  IF ~Authorize(u, {"FINANCE_TEAM", "ADMIN"}) THEN Forbidden(op, u)
  ELSE IF ~ReviewBodyValid(status, remarks) THEN Fail(op, u, 400, "Invalid input")
  ELSE IF id \notin DOMAIN table THEN Fail(op, u, 404, entity \o " not found")
  ELSE
    /\ Len(budgetApproval[id]) < MaxApprovals
    /\ budgetApproval' = [budgetApproval EXCEPT ![id] = RecordApproval(@, ApprovalRow(u, status, remarks))]
    /\ pending' = pending \cup {ReviewInFlight(entity, u, id, status)}
    /\ UNCHANGED <<event, workshop, budget, expense, activityLog, user, smtp, probe, resp>>

\* await prisma.<table>.update({ data: { status } }), the email block, res.json(approval)
ReviewSetStatus(p) ==
  /\ p \in pending /\ p.stage = "recorded"
  /\ pending' = pending \ {p}
  /\ IF p.entity = "Event"
       THEN event' = [event EXCEPT ![p.id].status = ReviewStatus(p.status, @)] /\ UNCHANGED workshop
       ELSE workshop' = [workshop EXCEPT ![p.id].status = ReviewStatus(p.status, @)] /\ UNCHANGED event
  /\ ReplyAfterEmail(ReviewOp(p.entity), p.caller, 200, {p.id}, TRUE, ReviewFailed(p.entity))
  /\ UNCHANGED <<budget, budgetApproval, expense, activityLog, user, smtp, probe>>

----------------------------------------------------------------------------
\* Expenses: create (POST /) and the per-category summary

ExpenseRow(n, id, categoryId, amount, u) ==
  [id |-> n, ownerId |-> id, categoryId |-> categoryId, amount |-> amount, addedById |-> u]

CreateExpense(u, id, categoryId, amount) ==
  LET op == "createExpense" IN
  IF ~Authorize(u, {"FACILITIES_TEAM", "FINANCE_TEAM", "ADMIN"}) THEN Forbidden(op, u)
  ELSE IF amount < 0 THEN Fail(op, u, 400, "Invalid input")
  ELSE IF id \notin DOMAIN event \cup DOMAIN workshop \/ categoryId \notin CategoryIds
    THEN Fail(op, u, 500, "Failed to create expense")
  ELSE
    /\ Cardinality(expense) < MaxExpenses
    /\ expense' = expense \cup {ExpenseRow(Cardinality(expense) + 1, id, categoryId, amount, u)}
    /\ Reply(op, u, 201, "", {id})
    /\ UNCHANGED <<event, workshop, budget, budgetApproval, activityLog, user, smtp, probe, pending>>

RECURSIVE SumAmount(_)
SumAmount(rows) ==
  IF rows = {} THEN 0
  ELSE LET r == CHOOSE x \in rows : TRUE IN r.amount + SumAmount(rows \ {r})

\* budget.approvedAmount || budget.amount: null and 0 are both falsy.
BudgetAmount(b) ==
  IF b.approvedAmount # NoAmount /\ b.approvedAmount # 0 THEN b.approvedAmount ELSE b.amount

\* The owner's expenses without the category filter.
CategoryExpensesAnyCategory(id, categoryId) == {x \in expense : x.ownerId = id}

\* expenses.filter(expense => expense.categoryId === budget.categoryId) of the owner's expenses
CategoryExpenses(id, categoryId) ==
  {x \in expense : x.ownerId = id /\ x.categoryId = categoryId}

SummaryLine(id, categoryId) ==
  LET b == budget[<<id, categoryId>>]
      rows == CategoryExpenses(id, categoryId)
      totalExpense == SumAmount(rows)
  IN [category |-> categoryId,
      budgetAmount |-> BudgetAmount(b),
      totalExpense |-> totalExpense,
      remaining |-> BudgetAmount(b) - totalExpense,
      expenseCount |-> Cardinality(rows)]

Summary(id) == {SummaryLine(id, c) : c \in {c \in CategoryIds : <<id, c>> \in DOMAIN budget}}

\* A summary that stores the amount it reports as the line's approvedAmount.
SummarizeAndStore(u, id) ==
  /\ Reply("summarize", u, 200, "", Summary(id))
  /\ budget' = [k \in DOMAIN budget |->
                  IF k[1] = id THEN [budget[k] EXCEPT !.approvedAmount = BudgetAmount(budget[k])]
                  ELSE budget[k]]
  /\ UNCHANGED <<event, workshop, budgetApproval, expense, activityLog, user, smtp, probe, pending>>

\* GET /event/:eventId/summary and GET /workshop/:workshopId/summary: no role
\* list, no existence check; an unknown id yields the empty list.
Summarize(u, id) ==
  /\ Reply("summarize", u, 200, "", Summary(id))
  /\ UNCHANGED <<db, smtp, probe, pending>>

----------------------------------------------------------------------------
\* List and get-by-id of the events and workshops routes

\* whereClause of GET /: creatorId for the route's team lead, coordinatorId
\* for the route's coordinator, empty otherwise.
Visible(role, u, row, leadRole, coordRole) ==
  IF role = leadRole THEN row.creatorId = u
  ELSE IF role = coordRole THEN row.coordinatorId = u
  ELSE TRUE

\* The permission checks of GET /:id.
GetDenied(role, u, row, leadRole, coordRole) ==
  \/ role = leadRole /\ row.creatorId # u
  \/ role = coordRole /\ row.coordinatorId # u

ListEvents(u) ==
  /\ Reply("listEvents", u, 200, "",
           {x \in DOMAIN event : Visible(RoleOf(u), u, event[x], "EVENT_TEAM_LEAD", "EVENT_COORDINATOR")})
  /\ UNCHANGED <<db, smtp, probe, pending>>

ListWorkshops(u) ==
  /\ Reply("listWorkshops", u, 200, "",
           {x \in DOMAIN workshop :
               Visible(RoleOf(u), u, workshop[x], "WORKSHOP_TEAM_LEAD", "WORKSHOP_COORDINATOR")})
  /\ UNCHANGED <<db, smtp, probe, pending>>

GetEvent(u, id) ==
  LET op == "getEvent" IN
  IF id \notin DOMAIN event THEN Fail(op, u, 404, "Event not found")
  ELSE IF GetDenied(RoleOf(u), u, event[id], "EVENT_TEAM_LEAD", "EVENT_COORDINATOR")
    THEN Fail(op, u, 403, "Access denied")
  ELSE Reply(op, u, 200, "", {id}) /\ UNCHANGED <<db, smtp, probe, pending>>

GetWorkshop(u, id) ==
  LET op == "getWorkshop" IN
  IF id \notin DOMAIN workshop THEN Fail(op, u, 404, "Workshop not found")
  ELSE IF GetDenied(RoleOf(u), u, workshop[id], "WORKSHOP_TEAM_LEAD", "WORKSHOP_COORDINATOR")
    THEN Fail(op, u, 403, "Access denied")
  ELSE Reply(op, u, 200, "", {id}) /\ UNCHANGED <<db, smtp, probe, pending>>

----------------------------------------------------------------------------
\* Create (POST /) of the events and workshops routes

\* The ids the database can give to new rows.
NewEventIds == {"e3"}
NewWorkshopIds == {"w3"}

\* body('title').notEmpty()
CreateBodyValid(body) == "title" \in DOMAIN body /\ body.title # ""

\* startDate ? new Date(startDate) : null
DateField(body, f) == IF f \in DOMAIN body THEN body[f] ELSE NoDate

\* eventData / workshopData: status is the column default PENDING, venueId null.
NewRow(u, body, coordRole) ==
  [title |-> body.title, status |-> "PENDING", creatorId |-> u,
   coordinatorId |-> IF "coordinatorEmail" \in DOMAIN body
                       THEN CHOOSE c \in FindCoordinator(body.coordinatorEmail, coordRole) : TRUE
                       ELSE NULL,
   venueId |-> NULL, startDate |-> DateField(body, "startDate"), endDate |-> DateField(body, "endDate")]

Extend(table, id, row) == [x \in DOMAIN table \cup {id} |-> IF x = id THEN row ELSE table[x]]

CreateEvent(u, body) ==
  LET op == "createEvent" IN
  IF ~Authorize(u, {"EVENT_TEAM_LEAD", "ADMIN"}) THEN Forbidden(op, u)
  ELSE IF ~CreateBodyValid(body) THEN Fail(op, u, 400, "Invalid input")
  ELSE IF "coordinatorEmail" \in DOMAIN body
          /\ FindCoordinator(body.coordinatorEmail, "EVENT_COORDINATOR") = {}
    THEN Fail(op, u, 400, "Coordinator not found with the provided email")
  ELSE
    \E id \in NewEventIds \ DOMAIN event :
       LET row == NewRow(u, body, "EVENT_COORDINATOR") IN
       /\ event' = Extend(event, id, row)
       /\ budgetApproval' = Extend(budgetApproval, id, <<>>)
       /\ ReplyAfterEmail(op, u, 201, {id}, row.coordinatorId # NULL, "Failed to create event")
       /\ UNCHANGED <<workshop, budget, expense, activityLog, user, smtp, probe, pending>>

CreateWorkshop(u, body) ==
  LET op == "createWorkshop" IN
  IF ~Authorize(u, {"WORKSHOP_TEAM_LEAD", "ADMIN"}) THEN Forbidden(op, u)
  ELSE IF ~CreateBodyValid(body) THEN Fail(op, u, 400, "Invalid input")
  ELSE IF "coordinatorEmail" \in DOMAIN body
          /\ FindCoordinator(body.coordinatorEmail, "WORKSHOP_COORDINATOR") = {}
    THEN Fail(op, u, 400, "Workshop coordinator not found with the provided email")
  ELSE
    \E id \in NewWorkshopIds \ DOMAIN workshop :
       LET row == NewRow(u, body, "WORKSHOP_COORDINATOR") IN
       /\ workshop' = Extend(workshop, id, row)
       /\ budgetApproval' = Extend(budgetApproval, id, <<>>)
       /\ ReplyAfterEmail(op, u, 201, {id}, row.coordinatorId # NULL, "Failed to create workshop")
       /\ UNCHANGED <<event, budget, expense, activityLog, user, smtp, probe, pending>>

----------------------------------------------------------------------------
\* Users: DELETE /users/:id

\* The tables as one record, as the transaction client sees them.
Tables ==
  [event |-> event, workshop |-> workshop, budget |-> budget, budgetApproval |-> budgetApproval,
   expense |-> expense, activityLog |-> activityLog, user |-> user]

\* The statements of the transaction body, in order.
DeleteUserSteps ==
  <<"activityLog", "budgetApproval", "expense", "eventDelete", "eventCoordinator",
    "workshopDelete", "workshopCoordinator", "user">>

\* Rows that reference a deleted event or workshop go with it.
DropOwners(s, gone) ==
  [s EXCEPT
     !.budget = [k \in {k \in DOMAIN s.budget : k[1] \notin gone} |-> s.budget[k]],
     !.budgetApproval = [b \in DOMAIN s.budgetApproval |->
                           IF b \in gone THEN <<>> ELSE s.budgetApproval[b]],
     !.expense = {x \in s.expense : x.ownerId \notin gone}]

ClearCoordinator(table, id) ==
  [x \in DOMAIN table |->
     IF table[x].coordinatorId = id THEN [table[x] EXCEPT !.coordinatorId = NULL] ELSE table[x]]

\* One statement of the transaction body on the tables s.
DeleteUserStep(s, step, id) ==
  CASE step = "activityLog" ->
         [s EXCEPT !.activityLog = SelectSeq(s.activityLog, LAMBDA l : l.userId # id)]
    [] step = "budgetApproval" ->
         [s EXCEPT !.budgetApproval =
            [b \in DOMAIN s.budgetApproval |->
               SelectSeq(s.budgetApproval[b], LAMBDA r : r.reviewerId # id)]]
    [] step = "expense" ->
         [s EXCEPT !.expense = {x \in s.expense : x.addedById # id}]
    [] step = "eventDelete" ->
         LET gone == {x \in DOMAIN s.event : s.event[x].creatorId = id}
         IN DropOwners([s EXCEPT !.event = [x \in DOMAIN s.event \ gone |-> s.event[x]]], gone)
    [] step = "eventCoordinator" ->
         [s EXCEPT !.event = ClearCoordinator(s.event, id)]
    [] step = "workshopDelete" ->
         LET gone == {x \in DOMAIN s.workshop : s.workshop[x].creatorId = id}
         IN DropOwners([s EXCEPT !.workshop = [x \in DOMAIN s.workshop \ gone |-> s.workshop[x]]], gone)
    [] step = "workshopCoordinator" ->
         [s EXCEPT !.workshop = ClearCoordinator(s.workshop, id)]
    [] step = "user" ->
         [s EXCEPT !.user = s.user \ {id}]

RECURSIVE DeleteUserRun(_, _, _)
DeleteUserRun(s, steps, id) ==
  IF steps = <<>> THEN s ELSE DeleteUserRun(DeleteUserStep(s, Head(steps), id), Tail(steps), id)

\* A transaction that keeps what ran before the statement that threw.
TransactionKeepPartial(before, partial) == partial

\* prisma.$transaction(async tx => ...): when a statement throws, nothing
\* of what the body did is stored.
TransactionRollback(before, partial) == before

Store(s) ==
  /\ event' = s.event
  /\ workshop' = s.workshop
  /\ budget' = s.budget
  /\ budgetApproval' = s.budgetApproval
  /\ expense' = s.expense
  /\ activityLog' = s.activityLog
  /\ user' = s.user

\* DELETE /users/:id: the body either runs to its end, or one of its
\* statements throws (a foreign key that still references a deleted row, a
\* storage failure) after the first k statements.
DeleteUser(u, id) ==
  LET op == "deleteUser" IN
  IF ~Authorize(u, {"ADMIN"}) THEN Forbidden(op, u)
  ELSE IF id \notin user THEN Fail(op, u, 404, "User not found")
  ELSE
    \E k \in 0..Len(DeleteUserSteps) :
       IF k = Len(DeleteUserSteps)
         THEN /\ Store(DeleteUserRun(Tables, DeleteUserSteps, id))
              /\ Reply(op, u, 200, "", {id})
              /\ UNCHANGED <<smtp, probe, pending>>
         ELSE /\ Store(TransactionRollback(Tables, DeleteUserRun(Tables, SubSeq(DeleteUserSteps, 1, k), id)))
              /\ Reply(op, u, 500, "Failed to delete user", {})
              /\ UNCHANGED <<smtp, probe, pending>>

----------------------------------------------------------------------------
\* Delete (DELETE /:id) of the events and workshops routes

DeleteLog(entity, id, row, u) ==
  [action |-> IF entity = "Event" THEN "DELETE_EVENT" ELSE "DELETE_WORKSHOP",
   entity |-> entity, entityId |-> id,
   oldValues |-> row.status, newValues |-> NULL, userId |-> u]

\* The audit entry is created first, then the row is deleted with the
\* budgets, expenses and approvals that reference it.
DeleteEvent(u, id) ==
  LET op == "deleteEvent" IN
  IF ~Authorize(u, {"ADMIN"}) THEN Forbidden(op, u)
  ELSE IF id \notin DOMAIN event THEN Fail(op, u, 404, "Event not found")
  ELSE
    /\ Len(activityLog) < MaxLog
    /\ Store(DropOwners(
          [Tables EXCEPT
             !.activityLog = Append(activityLog, DeleteLog("Event", id, event[id], u)),
             !.event = [x \in DOMAIN event \ {id} |-> event[x]]],
          {id}))
    /\ Reply(op, u, 200, "", {id})
    /\ UNCHANGED <<smtp, probe, pending>>

DeleteWorkshop(u, id) ==
  LET op == "deleteWorkshop" IN
  IF ~Authorize(u, {"ADMIN"}) THEN Forbidden(op, u)
  ELSE IF id \notin DOMAIN workshop THEN Fail(op, u, 404, "Workshop not found")
  ELSE
    /\ Len(activityLog) < MaxLog
    /\ Store(DropOwners(
          [Tables EXCEPT
             !.activityLog = Append(activityLog, DeleteLog("Workshop", id, workshop[id], u)),
             !.workshop = [x \in DOMAIN workshop \ {id} |-> workshop[x]]],
          {id}))
    /\ Reply(op, u, 200, "", {id})
    /\ UNCHANGED <<smtp, probe, pending>>

----------------------------------------------------------------------------
\* One evaluation of the conflict where-clause on drawn dates

ProbeConflict ==
  /\ probe.result = "none"
  /\ probe' = [probe EXCEPT !.result =
                  IF ConflictWhere(probe.s2, probe.e2, probe.s, probe.e) THEN "conflict" ELSE "clear"]
  /\ Reply("probeConflict", NULL, 200, "", {})
  /\ UNCHANGED <<db, smtp, pending>>

----------------------------------------------------------------------------
\* Initial states

\* POST / of the events and workshops routes: status defaults to PENDING, no
\* venue, the dates of the body or null.
CreatedRow(creator, coordinator, s, e) ==
  [title |-> "t0", status |-> "PENDING", creatorId |-> creator, coordinatorId |-> coordinator,
   venueId |-> NULL, startDate |-> s, endDate |-> e]

CreatorOf(id) == CASE id = "e1" -> "etl1" [] id = "e2" -> "etl2" [] id = "w1" -> "wtl"
CoordinatorOf(id) == CASE id = "e1" -> "ecd" [] id = "e2" -> NULL [] id = "w1" -> "wcd"

Intervals == DateOrNull \X DateOrNull

NoProbe == [s2 |-> NoDate, e2 |-> NoDate, s |-> NoDate, e |-> NoDate, result |-> "none"]
NoResp == [op |-> "none", caller |-> NULL, code |-> 0, error |-> "", out |-> {}]

\* The tables after the bookables were created with the dates iv[id] and
\* reviewed as hist[id] says (no review: PENDING).
Created(iv, hist) ==
  LET row(id) == [CreatedRow(CreatorOf(id), CoordinatorOf(id), iv[id][1], iv[id][2])
                    EXCEPT !.status = IF hist[id] = <<>> THEN "PENDING"
                                      ELSE hist[id][Len(hist[id])].status]
  IN /\ event = [id \in EventIds |-> row(id)]
     /\ workshop = [id \in WorkshopIds |-> row(id)]
     /\ budgetApproval = hist
     /\ budget = [k \in {} |-> NULL]
     /\ expense = {}
     /\ activityLog = <<>>
     /\ user = Users
     /\ pending = {}
     /\ resp = NoResp

NoReviews == [id \in BookableIds |-> <<>>]

\* Every bookable created with any dates, nothing reviewed.
Init ==
  /\ \E iv \in [BookableIds -> Intervals] : Created(iv, NoReviews)
  /\ probe = NoProbe
  /\ smtp = "up"

\* e1 on days 1..2, e2 on 2..MaxDate, w1 on day 2.
FixedIntervals == [id \in BookableIds |->
  CASE id = "e1" -> <<1, 2>> [] id = "e2" -> <<2, MaxDate>> [] id = "w1" -> <<2, 2>>]

InitFixed == Created(FixedIntervals, NoReviews) /\ probe = NoProbe /\ smtp = "up"

\* The same tables with the mail transport up or down.
InitMail == Created(FixedIntervals, NoReviews) /\ probe = NoProbe /\ smtp \in {"up", "down"}

\* Venue scenarios: e1 on 1..2; e2 on 2..MaxDate, on MaxDate alone or
\* without dates; w1 on day 2; each bookable not reviewed, approved once
\* or rejected once by the finance user.
VenueIntervals ==
  {iv \in [BookableIds -> Intervals] :
     /\ iv["e1"] = <<1, 2>>
     /\ iv["e2"] \in {<<2, MaxDate>>, <<MaxDate, MaxDate>>, <<NoDate, NoDate>>}
     /\ iv["w1"] = <<2, 2>>}

OneReview == {<<>>} \cup {<<ApprovalRow("fin", s, "ok")>> : s \in {"APPROVED", "REJECTED"}}

InitVenue ==
  /\ \E iv \in VenueIntervals, hist \in [BookableIds -> OneReview] : Created(iv, hist)
  /\ probe = NoProbe
  /\ smtp = "up"

\* The where-clause on every pair of intervals, null dates included.
InitProbe ==
  /\ Created(FixedIntervals, NoReviews)
  /\ smtp = "up"
  /\ \E s2 \in DateOrNull, e2 \in DateOrNull, s \in Dates, e \in Dates :
       probe = [s2 |-> s2, e2 |-> e2, s |-> s, e |-> e, result |-> "none"]

----------------------------------------------------------------------------
\* Requests

VenueInputs == VenueIds \cup {NULL, UnknownVenue}

Line(c, amount, sponsor) == [categoryId |-> c, amount |-> amount, sponsorAmount |-> sponsor, remarks |-> "r"]
Adj(c, approved) == [categoryId |-> c, approvedAmount |-> approved, sponsorAmount |-> NoAmount]

\* A budgets value that is an object and not an array: { "0": null }.
NotArray == [i \in {0} |-> NULL]

SubmitInputs ==
  {<<Line("c1", 1, NoAmount)>>,
   <<Line("c1", MaxAmount, NoAmount), Line("c2", 1, 1)>>,
   <<Line("c2", 1, NoAmount), Line("c2", MaxAmount, NoAmount)>>,
   <<Line("c1", -1, NoAmount)>>,
   <<Line("c9", 1, NoAmount)>>}

AdjInputs ==
  {<<>>, <<Adj("c1", 0)>>, <<Adj("c1", 1)>>, <<Adj("c1", 1), Adj("c2", MaxAmount)>>}

\* Bodies of PUT /:id
EditBodies ==
  {[title |-> "t1"], [title |-> ""], [status |-> "APPROVED"], [status |-> "COMPLETED"],
   [title |-> "t1", endDate |-> MaxDate]}

VenueBodies == {[venueId |-> "v1"]}

CoordinatorBodies == {[coordinatorEmail |-> "ecd"], [coordinatorEmail |-> "wcd"], [coordinatorEmail |-> "nobody"]}

----------------------------------------------------------------------------
\* Specifications

\* Venue assignment on reviewed bookables: the facilities user on every
\* bookable and venue input, one unknown id, and one caller outside the
\* allow-list.
AssignEventRequests ==
  ({"fac"} \X EventIds \X VenueInputs) \cup {<<"fac", UnknownId, "v1">>, <<"etl1", "e1", "v1">>}

AssignWorkshopRequests ==
  ({"fac"} \X WorkshopIds \X VenueInputs) \cup {<<"fac", UnknownId, "v1">>, <<"wtl", "w1", "v1">>}

VenuesRouteRequests ==
  ({"fac"} \X EventIds \X VenueIds)
    \cup {<<"fac", UnknownId, "v1">>, <<"fac", "e1", UnknownVenue>>, <<"fin", "e1", "v1">>}

NextVenue ==
  \/ \E r \in AssignEventRequests : AssignVenueEvent(r[1], r[2], r[3])
  \/ \E r \in AssignWorkshopRequests : AssignVenueWorkshop(r[1], r[2], r[3])
  \/ \E r \in VenuesRouteRequests : VenuesRouteAssign(r[1], r[3], r[2])
  \/ \E body \in VenueBodies : UpdateEvent("etl1", "e1", body)
  \/ \E body \in VenueBodies : UpdateWorkshop("wtl", "w1", body)

SpecVenue == InitVenue /\ [][NextVenue]_vars

\* Edits of one event and one workshop under review: callers of every role
\* on e1 and w1, and one request for an unknown id.
EditEventCallers == {"adm", "fin", "etl1", "etl2", "ecd"}

EditWorkshopCallers == {"adm", "fac", "wtl", "wcd"}

EditEventRequests ==
  (EditEventCallers \X {"e1"} \X EditBodies) \cup {<<"adm", UnknownId, [title |-> "t1"]>>}

EditWorkshopRequests ==
  (EditWorkshopCallers \X {"w1"} \X EditBodies) \cup {<<"adm", UnknownId, [title |-> "t1"]>>}

NextEdit ==
  \/ \E r \in EditEventRequests : UpdateEvent(r[1], r[2], r[3])
  \/ \E r \in EditWorkshopRequests : UpdateWorkshop(r[1], r[2], r[3])
  \/ \E u \in {"fin", "etl1"}, s \in {"APPROVED", "REJECTED"} : ReviewBudgetEvent(u, "e1", s, "ok", <<>>)
  \/ \E u \in {"adm", "wtl"}, s \in {"APPROVED", "REJECTED"} : ReviewBudgetWorkshop(u, "w1", s, "ok", <<>>)

SpecEdit == InitFixed /\ [][NextEdit]_vars

\* Budgets, reviews with adjustments and the summary of one event; the
\* workshop routes on one workshop.
SubmitRequests ==
  ({"etl1"} \X {"e1"} \X SubmitInputs)
    \cup {<<"ecd", "e1", <<Line("c1", 1, NoAmount)>>>>, <<"fin", UnknownId, <<Line("c1", 1, NoAmount)>>>>,
          <<"etl1", "e1", NotArray>>}

ReviewRequests ==
  ({"fin"} \X {"e1"} \X {"APPROVED", "REJECTED"} \X {"ok"} \X AdjInputs)
    \cup {<<"etl1", "e1", "APPROVED", "ok", <<>>>>,
          <<"fin", UnknownId, "APPROVED", "ok", <<>>>>,
          <<"fin", "e1", "BOGUS", "ok", <<>>>>,
          <<"fin", "e1", "APPROVED", "", <<>>>>}

ExpenseRequests ==
  ({"fac"} \X {"e1"} \X {"c1"} \X {1, MaxAmount})
    \cup {<<"fac", "e1", "c2", 1>>, <<"fac", "e2", "c1", 1>>, <<"etl1", "e1", "c1", 1>>, <<"fac", "e1", "c1", -1>>,
          <<"fac", "e1", "c9", 1>>}

NextBudget ==
  \/ \E r \in SubmitRequests : SubmitBudgetEvent(r[1], r[2], r[3])
  \/ \E r \in ReviewRequests : ReviewBudgetEvent(r[1], r[2], r[3], r[4], r[5])
  \/ \E id \in {"e1", "w1"} : Summarize("fin", id)
  \/ SubmitBudgetWorkshop("wtl", "w1", <<Line("c1", 1, NoAmount)>>)
  \/ ReviewBudgetWorkshop("fin", "w1", "APPROVED", "ok", <<Adj("c1", 0)>>)

SpecBudget == InitFixed /\ [][NextBudget]_vars

\* Expenses against the budget lines of one event, and its summary.
NextExpense ==
  \/ \E lines \in {<<Line("c1", 1, NoAmount), Line("c2", MaxAmount, NoAmount)>>} :
       SubmitBudgetEvent("etl1", "e1", lines)
  \/ \E adjs \in {<<Adj("c1", MaxAmount)>>, <<Adj("c2", 0)>>} :
       ReviewBudgetEvent("fin", "e1", "APPROVED", "ok", adjs)
  \/ \E r \in ExpenseRequests : CreateExpense(r[1], r[2], r[3], r[4])
  \/ \E id \in {"e1", "w1"} : Summarize("fin", id)

SpecExpense == InitFixed /\ [][NextExpense]_vars

\* Lists and get-by-id for every user, with coordinators reassigned.
NextAccess ==
  \/ \E u \in Users : ListEvents(u)
  \/ \E u \in Users : ListWorkshops(u)
  \/ \E u \in Users, id \in EventIds \cup {UnknownId} : GetEvent(u, id)
  \/ \E u \in Users, id \in WorkshopIds \cup {UnknownId} : GetWorkshop(u, id)
  \/ \E u \in {"adm"}, id \in EventIds, body \in CoordinatorBodies : UpdateEvent(u, id, body)
  \/ \E u \in {"adm"}, id \in WorkshopIds, body \in CoordinatorBodies : UpdateWorkshop(u, id, body)

SpecAccess == InitFixed /\ [][NextAccess]_vars

\* The conflict where-clause alone.
NextProbe == ProbeConflict

SpecProbe == InitProbe /\ [][NextProbe]_vars

\* Deleting users that reviewed, added expenses, assigned venues, created
\* or coordinate bookables; requests of deleted users are not served.
DeleteUserRequests ==
  ({"adm"} \X {"fin", "fac", "etl1", "ecd", "wtl", "nobody"}) \cup {<<"fin", "etl1">>}

NextUser ==
  \/ \E r \in DeleteUserRequests : r[1] \in user /\ DeleteUser(r[1], r[2])
  \/ "fin" \in user /\ ReviewBudgetEvent("fin", "e1", "APPROVED", "ok", <<>>)
  \/ "adm" \in user /\ ReviewBudgetWorkshop("adm", "w1", "REJECTED", "ok", <<>>)
  \/ "etl1" \in user /\ SubmitBudgetEvent("etl1", "e1", <<Line("c1", 1, NoAmount)>>)
  \/ \E r \in {<<"fac", "e1">>, <<"fin", "e2">>} :
       r[1] \in user /\ CreateExpense(r[1], r[2], "c1", 1)
  \/ "fac" \in user /\ AssignVenueEvent("fac", "e1", "v1")

SpecUser == InitFixed /\ [][NextUser]_vars

\* Creates, submits and reviews with the mail transport up or down.
CreateBodies ==
  {[title |-> "t3"], [title |-> ""], [title |-> "t3", coordinatorEmail |-> "ecd"],
   [title |-> "t3", coordinatorEmail |-> "wcd", startDate |-> 1, endDate |-> MaxDate]}

MailSubmitRequests ==
  {<<"etl1", "e1", <<Line("c1", 1, NoAmount)>>>>, <<"etl1", "e1", <<Line("c1", -1, NoAmount)>>>>}

NextMail ==
  \/ \E u \in {"etl1", "fin"}, body \in CreateBodies : CreateEvent(u, body)
  \/ \E body \in CreateBodies : CreateWorkshop("wtl", body)
  \/ \E r \in MailSubmitRequests : SubmitBudgetEvent(r[1], r[2], r[3])
  \/ SubmitBudgetWorkshop("wtl", "w1", <<Line("c1", 1, NoAmount)>>)
  \/ \E s \in {"APPROVED", "REJECTED"} : ReviewBudgetEvent("fin", "e1", s, "ok", <<>>)
  \/ ReviewBudgetWorkshop("adm", "w1", "APPROVED", "ok", <<>>)

SpecMail == InitMail /\ [][NextMail]_vars

\* Role and ownership checks: each guarded handler called by a caller that
\* passes the check and by callers that do not, on tables that hold budget
\* lines, approvals, expenses and a workshop created by the admin.
GuardBodies == {[title |-> "t1"], [title |-> ""]}

GuardUpdateEventRequests == {"etl1", "etl2"} \X {"e1"}

GuardReviewRequests ==
  {"fin", "etl1", "ecd"} \X {"e1"} \X {"REJECTED"}

GuardDeleteRequests ==
  {<<"adm", "e2">>, <<"etl1", "e1">>, <<"fin", "e1">>}

GuardDeleteUserRequests == {<<"adm", "ecd">>, <<"fin", "etl1">>}

NextGuard ==
  \/ \E r \in GuardUpdateEventRequests, body \in GuardBodies : UpdateEvent(r[1], r[2], body)
  \/ \E id \in WorkshopIds \cup NewWorkshopIds, body \in GuardBodies : UpdateWorkshop("wtl", id, body)
  \/ \E r \in GuardReviewRequests : ReviewBudgetEvent(r[1], r[2], r[3], "ok", <<>>)
  \/ \E u \in {"fin", "wtl"} : ReviewBudgetWorkshop(u, "w1", "APPROVED", "ok", <<>>)
  \/ \E r \in GuardDeleteRequests : DeleteEvent(r[1], r[2])
  \/ \E u \in {"adm", "wtl"} : DeleteWorkshop(u, "w1")
  \/ \E r \in GuardDeleteUserRequests : DeleteUser(r[1], r[2])
  \/ CreateWorkshop("adm", [title |-> "t3"])
  \/ SubmitBudgetEvent("etl1", "e1", <<Line("c1", 1, NoAmount)>>)
  \/ CreateExpense("fac", "e1", "c1", 1)

SpecGuard == InitFixed /\ [][NextGuard]_vars

\* Concurrent assign-venue requests on the overlapping bookables e1, e2 and
\* w1, each not reviewed, approved or rejected.
InitRace ==
  /\ \E hist \in [BookableIds -> OneReview] : Created(FixedIntervals, hist)
  /\ probe = NoProbe
  /\ smtp = "up"

RaceRequests ==
  ({"fac"} \X {"Event"} \X EventIds \X VenueIds)
    \cup ({"fac"} \X {"Workshop"} \X WorkshopIds \X VenueIds)
    \cup {<<"fin", "Event", "e1", "v1">>, <<"fac", "Event", UnknownId, "v1">>}

NextRace ==
  \/ \E r \in RaceRequests : AssignVenueQuery(r[1], r[2], r[3], r[4])
  \/ \E p \in pending : AssignVenueWrite(p)

SpecRace == InitRace /\ [][NextRace]_vars

\* Re-submission: e1 and w1 were rejected once by the finance user; their
\* creators edit them and submit budgets; nobody reviews.
RejectedOnce ==
  [id \in BookableIds |->
     IF id \in {"e1", "w1"} THEN <<ApprovalRow("fin", "REJECTED", "ok")>> ELSE <<>>]

InitResubmit == Created(FixedIntervals, RejectedOnce) /\ probe = NoProbe /\ smtp = "up"

ResubmitBodies == {[title |-> "t1"], [endDate |-> MaxDate], [title |-> "t1", endDate |-> MaxDate]}

NextResubmit ==
  \/ \E body \in ResubmitBodies : UpdateEvent("etl1", "e1", body)
  \/ \E body \in ResubmitBodies : UpdateWorkshop("wtl", "w1", body)
  \/ \E lines \in SubmitInputs : SubmitBudgetEvent("etl1", "e1", lines)
  \/ \E lines \in SubmitInputs : SubmitBudgetWorkshop("wtl", "w1", lines)

SpecResubmit == InitResubmit /\ [][NextResubmit]_vars

\* Venue assignment to bookables that lack a date: e1 on days 1..2, e2 and
\* w1 with one or both dates null, each not reviewed, approved or rejected;
\* the admin puts e1 on a venue by an update.
NullDateIntervals ==
  {iv \in [BookableIds -> Intervals] :
     /\ iv["e1"] = <<1, 2>>
     /\ iv["e2"] \in {<<NoDate, NoDate>>, <<2, NoDate>>, <<NoDate, 2>>}
     /\ iv["w1"] \in {<<2, NoDate>>, <<2, 2>>}}

InitNullDates ==
  /\ \E iv \in NullDateIntervals, hist \in [BookableIds -> OneReview] : Created(iv, hist)
  /\ probe = NoProbe
  /\ smtp = "up"

NextNullDates ==
  \/ \E id \in EventIds, v \in VenueIds : AssignVenueEvent("fac", id, v)
  \/ \E id \in WorkshopIds, v \in VenueIds : AssignVenueWorkshop("adm", id, v)
  \/ \E body \in VenueBodies : UpdateEvent("adm", "e1", body)

SpecNullDates == InitNullDates /\ [][NextNullDates]_vars

\* The scope of the conflict queries: the overlapping e1, e2 and w1, each
\* not reviewed, approved or rejected; venues reach bookables of any status
\* through the venues route and the workshop update, and the admin marks the
\* workshop COMPLETED.
ScopeBodies == {[venueId |-> "v1"], [status |-> "COMPLETED"]}

NextScope ==
  \/ \E id \in EventIds, v \in VenueIds : AssignVenueEvent("fac", id, v)
  \/ \E v \in VenueIds : AssignVenueWorkshop("fac", "w1", v)
  \/ \E id \in EventIds : VenuesRouteAssign("fac", "v1", id)
  \/ \E body \in ScopeBodies : UpdateWorkshop("adm", "w1", body)

SpecScope == InitRace /\ [][NextScope]_vars

\* Assign-venue statement by statement, on APPROVED or unreviewed
\* bookables; nothing else writes a venue id.
AuditRequests ==
  ({"fac"} \X {"Event"} \X EventIds \X {"v1"}) \cup {<<"adm", "Workshop", "w1", "v1">>}

NextAudit ==
  \/ \E r \in AuditRequests : AssignVenueQuery(r[1], r[2], r[3], r[4])
  \/ \E p \in pending : AssignVenueUpdate(p)
  \/ \E p \in pending : AssignVenueAudit(p)
  \/ \E p \in pending : AssignVenueAuditFails(p)

SpecAudit == InitRace /\ [][NextAudit]_vars

\* Budget submits on bookables of every status: e1, e2 and w1 each not
\* reviewed, approved or rejected, and the workshop marked COMPLETED by the
\* admin's update.
FrameSubmitInputs ==
  {<<Line("c1", 1, NoAmount)>>, <<Line("c2", 1, NoAmount), Line("c2", MaxAmount, 1)>>}

NextFrame ==
  \/ \E u \in {"etl1", "fin", "adm"}, lines \in FrameSubmitInputs : SubmitBudgetEvent(u, "e1", lines)
  \/ \E u \in {"wtl", "fin"}, lines \in FrameSubmitInputs : SubmitBudgetWorkshop(u, "w1", lines)
  \/ UpdateWorkshop("adm", "w1", [status |-> "COMPLETED"])

SpecFrame == InitRace /\ [][NextFrame]_vars

\* Concurrent reviews: the finance user and the admin review e1 and w1 with
\* either decision; the status update of a review is a later step than its
\* approval row.
ReviewRaceRequests ==
  ({"fin", "adm"} \X {"Event"} \X {"e1"} \X {"APPROVED", "REJECTED"} \X {"ok"})
    \cup {<<"fin", "Workshop", "w1", "APPROVED", "ok">>, <<"adm", "Workshop", "w1", "REJECTED", "ok">>,
          <<"etl1", "Event", "e1", "APPROVED", "ok">>, <<"fin", "Event", "e1", "APPROVED", "">>,
          <<"fin", "Event", UnknownId, "APPROVED", "ok">>}

NextReviewRace ==
  \/ \E r \in ReviewRaceRequests : ReviewRecord(r[1], r[2], r[3], r[4], r[5])
  \/ \E p \in pending : ReviewSetStatus(p)

SpecReviewRace == InitFixed /\ [][NextReviewRace]_vars

\* Sequential assign-venue: a request starts only when none is in flight,
\* so each runs from its queries to its response without another in between.
\* Dates and statuses are those of the initial state.
SequentialRequests ==
  ({"fac"} \X {"Event"} \X EventIds \X VenueIds)
    \cup ({"fac"} \X {"Workshop"} \X WorkshopIds \X VenueIds)

NextSequential ==
  \/ pending = {} /\ \E r \in SequentialRequests : AssignVenueQuery(r[1], r[2], r[3], r[4])
  \/ \E p \in pending : AssignVenueWrite(p)

SpecSequential == InitVenue /\ [][NextSequential]_vars

\* Edits concurrent with reviews: the creators of e1 and w1 update them in
\* two steps while the finance user reviews them.
EditRaceBodies == {[title |-> "t1"], [title |-> ""], [venueId |-> UnknownVenue]}

EditRaceRequests ==
  ({<<"etl1", "Event", "e1">>, <<"wtl", "Workshop", "w1">>, <<"etl2", "Event", "e1">>,
    <<"etl1", "Event", UnknownId>>} \X EditRaceBodies)
    \cup {<<<<"etl1", "Event", "e1">>, [coordinatorEmail |-> "nobody"]>>}

NextEditRace ==
  \/ \E r \in EditRaceRequests : UpdateRead(r[1][1], r[1][2], r[1][3], r[2])
  \/ \E p \in pending : UpdateWrite(p)
  \/ \E s \in {"APPROVED", "REJECTED"} : ReviewBudgetEvent("fin", "e1", s, "ok", <<>>)
  \/ ReviewBudgetWorkshop("fin", "w1", "APPROVED", "ok", <<>>)

SpecEditRace == InitFixed /\ [][NextEditRace]_vars

\* Every handler on every request of the sets above.
Next ==
  \/ NextVenue \/ NextEdit \/ NextBudget \/ NextExpense \/ NextAccess \/ NextProbe
  \/ NextUser \/ NextMail \/ NextGuard \/ NextRace \/ NextResubmit \/ NextNullDates
  \/ NextScope \/ NextAudit \/ NextFrame \/ NextReviewRace \/ NextSequential
  \/ NextEditRace

Spec == Init /\ [][Next]_vars

----------------------------------------------------------------------------
\* Views used by the properties

Row(id) == IF id \in DOMAIN event THEN event[id] ELSE workshop[id]
RowNext(id) == IF id \in DOMAIN event THEN event'[id] ELSE workshop'[id]

Dated(row) == row.startDate # NoDate /\ row.endDate # NoDate

\* Inclusive overlap of [s, e] and [s2, e2].
Overlap(s, e, s2, e2) == s <= e2 /\ s2 <= e

VenueCallers == {u \in Users : RoleOf(u) \in {"ADMIN", "FACILITIES_TEAM"}}
Reviewers == {u \in Users : RoleOf(u) \in {"FINANCE_TEAM", "ADMIN"}}
LeadRoles == {"EVENT_TEAM_LEAD", "WORKSHOP_TEAM_LEAD"}
CoordinatorRoles == {"EVENT_COORDINATOR", "WORKSHOP_COORDINATOR"}

----------------------------------------------------------------------------
\* Properties

\* C1: in every reachable state no two distinct bookables (of either kind)
\* that reference the same venue and both have start and end dates have
\* overlapping inclusive intervals.
C1_NoDoubleBooking ==
  \A a \in BookableIds, b \in BookableIds :
     (/\ a # b
      /\ Row(a).venueId # NULL
      /\ Row(a).venueId = Row(b).venueId
      /\ Dated(Row(a))
      /\ Dated(Row(b)))
     => ~Overlap(Row(a).startDate, Row(a).endDate, Row(b).startDate, Row(b).endDate)

\* C2: assign-venue by a caller of the route's allow-list, for an existing
\* bookable whose status is not APPROVED and with a venueId in the body, is
\* answered 400 'Venue can only be assigned to approved ...' whether or not
\* the venue exists or a booking conflicts, and nothing is written.
C2_NotApprovedIsRefused ==
  [][/\ resp'.op = "assignVenueEvent"
        => \A id \in EventIds, v \in VenueIds \cup {UnknownVenue} :
              (/\ resp'.caller \in VenueCallers
               /\ event[id].status # "APPROVED"
               /\ AssignVenueEvent(resp'.caller, id, v))
              => /\ resp'.code = 400
                 /\ resp'.error = "Venue can only be assigned to approved events"
                 /\ event' = event
                 /\ activityLog' = activityLog
     /\ resp'.op = "assignVenueWorkshop"
        => \A id \in WorkshopIds, v \in VenueIds \cup {UnknownVenue} :
              (/\ resp'.caller \in VenueCallers
               /\ workshop[id].status # "APPROVED"
               /\ AssignVenueWorkshop(resp'.caller, id, v))
              => /\ resp'.code = 400
                 /\ resp'.error = "Venue can only be assigned to approved workshops"
                 /\ workshop' = workshop
                 /\ activityLog' = activityLog]_vars

\* C2 witness: assign-venue with an unknown venue id was refused for the
\* status of a bookable that is not APPROVED.
C2_Witness ==
  /\ resp.op = "assignVenueEvent"
  /\ resp.code = 400
  /\ resp.error = "Venue can only be assigned to approved events"
  /\ \E id \in EventIds : event[id].status = "REJECTED" /\ event[id].venueId = NULL

\* C3 as stated: for every pair of dated intervals, start > end included, the
\* where-clause reports a conflict iff s <= e2 and s2 <= e.
C3_ConflictIffOverlapAnyInterval ==
  (probe.result # "none" /\ probe.s2 # NoDate /\ probe.e2 # NoDate)
  => (probe.result = "conflict" <=> Overlap(probe.s, probe.e, probe.s2, probe.e2))

\* C3 amended: for every candidate [s, e] with s <= e and every existing
\* booking [s2, e2] with s2 <= e2, the where-clause reports a conflict iff
\* s <= e2 and s2 <= e.
C3_ConflictIffOverlapOrdered ==
  (/\ probe.result # "none"
   /\ probe.s2 # NoDate /\ probe.e2 # NoDate
   /\ probe.s <= probe.e /\ probe.s2 <= probe.e2)
  => (probe.result = "conflict" <=> Overlap(probe.s, probe.e, probe.s2, probe.e2))

\* C3 witness: a conflict reported for a candidate that strictly contains the
\* existing booking (only the third branch of the OR matches).
C3_Witness ==
  /\ probe.result = "conflict"
  /\ probe.s2 # NoDate /\ probe.s2 <= probe.e2
  /\ probe.s < probe.s2 /\ probe.e2 < probe.e

\* C4: in every reachable state a bookable whose status is APPROVED has an
\* APPROVED budget-approval row recorded by a finance or admin reviewer.
C4_ApprovedOnlyByReview ==
  \A id \in BookableIds :
     Row(id).status = "APPROVED"
     => \E i \in 1..Len(budgetApproval[id]) :
           /\ budgetApproval[id][i].status = "APPROVED"
           /\ budgetApproval[id][i].reviewerId \in Reviewers

\* C5: every step that changes a bookable's venueId starts in a state where
\* that bookable's status is APPROVED.
C5_VenueWrittenOnlyWhenApproved ==
  [][\A id \in BookableIds :
        RowNext(id).venueId # Row(id).venueId => Row(id).status = "APPROVED"]_vars

\* C6: every successful review of a bookable appends exactly one approval row
\* with the reviewer's decision to that bookable's history, leaves every
\* existing row and every other history as it was, and leaves the bookable's
\* status equal to the decision.
C6_ReviewAppendsOneRow ==
  [][/\ (resp'.op = "reviewBudgetEvent" /\ resp'.code = 200)
        => \A id \in EventIds, s \in {"APPROVED", "REJECTED"}, adjs \in AdjInputs :
              ReviewBudgetEvent(resp'.caller, id, s, "ok", adjs)
              => /\ budgetApproval' =
                      [budgetApproval EXCEPT ![id] = Append(@, ApprovalRow(resp'.caller, s, "ok"))]
                 /\ event'[id].status = s
     /\ (resp'.op = "reviewBudgetWorkshop" /\ resp'.code = 200)
        => \A id \in WorkshopIds, s \in {"APPROVED", "REJECTED"}, adjs \in AdjInputs :
              ReviewBudgetWorkshop(resp'.caller, id, s, "ok", adjs)
              => /\ budgetApproval' =
                      [budgetApproval EXCEPT ![id] = Append(@, ApprovalRow(resp'.caller, s, "ok"))]
                 /\ workshop'[id].status = s]_vars

\* C6 witness: a REJECTED review followed by an APPROVED review of e1 left
\* two rows, in that order, and the status APPROVED.
C6_Witness ==
  /\ resp.op = "reviewBudgetEvent" /\ resp.code = 200
  /\ Len(budgetApproval["e1"]) = 2
  /\ budgetApproval["e1"][1].status = "REJECTED"
  /\ budgetApproval["e1"][2].status = "APPROVED"
  /\ event["e1"].status = "APPROVED"

C8_ApprovedEditOnlyByAdmin ==
  [][/\ (resp'.op = "updateEvent" /\ RoleOf(resp'.caller) # "ADMIN")
        => \A id \in EventIds, body \in EditBodies :
              (/\ event[id].status \in {"APPROVED", "COMPLETED"}
               /\ RoleOf(resp'.caller) = "EVENT_TEAM_LEAD" => event[id].creatorId = resp'.caller
               /\ UpdateEvent(resp'.caller, id, body))
              => resp'.code = 400 /\ event' = event
     /\ (resp'.op = "updateWorkshop" /\ RoleOf(resp'.caller) # "ADMIN")
        => \A id \in WorkshopIds, body \in EditBodies :
              (/\ workshop[id].status \in {"APPROVED", "COMPLETED"}
               /\ RoleOf(resp'.caller) = "WORKSHOP_TEAM_LEAD" => workshop[id].creatorId = resp'.caller
               /\ UpdateWorkshop(resp'.caller, id, body))
              => resp'.code = 400 /\ workshop' = workshop]_vars

\* The bookables the visibility rule lets a caller see: a team lead its own,
\* a coordinator those it coordinates, admin, finance and facilities all.
MaySee(u, row) ==
  IF RoleOf(u) \in LeadRoles THEN row.creatorId = u
  ELSE IF RoleOf(u) \in CoordinatorRoles THEN row.coordinatorId = u
  ELSE TRUE

\* C9: for both kinds the list returns to a team lead exactly the bookables
\* it created, to a coordinator exactly those it coordinates, and to admin,
\* finance and facilities all; get-by-id answers 403 to a team lead that is
\* not the creator and to a coordinator that is not the assigned one.
C9_RoleScopedVisibility ==
  [][/\ (resp'.op = "listEvents" /\ ListEvents(resp'.caller))
        => resp'.out = {x \in DOMAIN event : MaySee(resp'.caller, event[x])}
     /\ (resp'.op = "listWorkshops" /\ ListWorkshops(resp'.caller))
        => resp'.out = {x \in DOMAIN workshop : MaySee(resp'.caller, workshop[x])}
     /\ resp'.op = "getEvent"
        => \A id \in EventIds :
              (GetEvent(resp'.caller, id) /\ ~MaySee(resp'.caller, event[id]))
              => resp'.code = 403
     /\ resp'.op = "getWorkshop"
        => \A id \in WorkshopIds :
              (GetWorkshop(resp'.caller, id) /\ ~MaySee(resp'.caller, workshop[id]))
              => resp'.code = 403]_vars

\* approvedAmount if present (0 included), else the requested amount.
BudgetAmountIfPresent(b) == IF b.approvedAmount # NoAmount THEN b.approvedAmount ELSE b.amount

\* C10: for every budget line the summary reports budgetAmount =
\* approvedAmount whenever approvedAmount is present, 0 included, and
\* budgetAmount = the requested amount only when approvedAmount is absent.
C10_BudgetAmountIsApprovedIfPresent ==
  [][resp'.op = "summarize"
       => \A id \in BookableIds :
             Summarize(resp'.caller, id)
             => \A c \in CategoryIds :
                   <<id, c>> \in DOMAIN budget
                   => \E l \in resp'.out :
                         /\ l.category = c
                         /\ l.budgetAmount = BudgetAmountIfPresent(budget[<<id, c>>])]_vars

\* C11: for every budget line of the bookable the summary has one line whose
\* totalExpense is the sum of amount over exactly the expenses of the same
\* bookable and category, whose expenseCount is the number of those
\* expenses, and whose remaining is budgetAmount - totalExpense, negative
\* when overspent.
C11_SummaryTotals ==
  [][resp'.op = "summarize"
       => \A id \in BookableIds :
             Summarize(resp'.caller, id)
             => /\ Cardinality(resp'.out) = Cardinality({c \in CategoryIds : <<id, c>> \in DOMAIN budget})
                /\ \A c \in CategoryIds :
                      <<id, c>> \in DOMAIN budget
                      => \E l \in resp'.out :
                            LET same == {x \in expense : x.ownerId = id /\ x.categoryId = c}
                            IN /\ l.category = c
                               /\ l.totalExpense = SumAmount(same)
                               /\ l.expenseCount = Cardinality(same)
                               /\ l.remaining = l.budgetAmount - l.totalExpense]_vars

\* C11 witness: a summary line with negative remaining, counting fewer
\* expenses than are stored because some belong to another category or to
\* another bookable.
C11_Witness ==
  /\ resp.op = "summarize"
  /\ \E l \in resp.out :
        /\ l.remaining < 0
        /\ l.expenseCount >= 1
        /\ l.expenseCount < Cardinality(expense)

C13_ReviewIsAtomic ==
  [][(resp'.op \in {"reviewBudgetEvent", "reviewBudgetWorkshop"} /\ resp'.code # 200)
       => /\ budget' = budget
          /\ budgetApproval' = budgetApproval
          /\ event' = event
          /\ workshop' = workshop]_vars

\* Nothing stored refers to the user id any more.
UserGone(id) ==
  /\ id \notin user
  /\ \A i \in 1..Len(activityLog) : activityLog[i].userId # id
  /\ \A b \in DOMAIN budgetApproval : \A i \in 1..Len(budgetApproval[b]) : budgetApproval[b][i].reviewerId # id
  /\ \A x \in expense : x.addedById # id
  /\ \A x \in DOMAIN event : event[x].creatorId # id /\ event[x].coordinatorId # id
  /\ \A x \in DOMAIN workshop : workshop[x].creatorId # id /\ workshop[x].coordinatorId # id

\* C14: a delete of a stored user by an admin either answers 200 with the
\* user, its logs, approvals, expenses and created bookables removed and its
\* coordinator references null, or fails with every table unchanged; a
\* delete of an unknown user answers 404 with every table unchanged.
C14_DeleteUserIsAtomic ==
  [][resp'.op = "deleteUser"
       => \A id \in Users \cup {"nobody"} :
             (RoleOf(resp'.caller) = "ADMIN" /\ DeleteUser(resp'.caller, id))
             => IF id \notin user THEN resp'.code = 404 /\ db' = db
                ELSE IF resp'.code = 200 THEN UserGone(id)'
                ELSE db' = db]_vars

\* C14 witness: the coordinator of e1 was deleted; e1 is still stored, with
\* its approval row, and has no coordinator.
C14_Witness ==
  /\ resp.op = "deleteUser" /\ resp.code = 200 /\ resp.out = {"ecd"}
  /\ "ecd" \notin user
  /\ "e1" \in DOMAIN event
  /\ event["e1"].coordinatorId = NULL
  /\ budgetApproval["e1"] # <<>>

\* C15: with the mail transport down, a review, a budget submit and a create
\* that pass their checks and whose writes succeed still answer with their
\* success code, and the approval row and status, the upserted budget lines
\* or the created row are stored.
C15_EmailFailureIsSwallowed ==
  [][smtp = "down"
       => /\ resp'.op = "reviewBudgetEvent"
             => \A s \in {"APPROVED", "REJECTED"}, adjs \in AdjInputs :
                   (/\ ReviewBudgetEvent(resp'.caller, "e1", s, "ok", adjs)
                    /\ Authorize(resp'.caller, {"FINANCE_TEAM", "ADMIN"})
                    /\ \A i \in 1..Len(adjs) : AdjustFound("e1", adjs[i]))
                   => /\ resp'.code = 200
                      /\ budgetApproval'["e1"] =
                            Append(budgetApproval["e1"], ApprovalRow(resp'.caller, s, "ok"))
                      /\ event'["e1"].status = s
          /\ resp'.op = "reviewBudgetWorkshop"
             => \A s \in {"APPROVED", "REJECTED"} :
                   (/\ ReviewBudgetWorkshop(resp'.caller, "w1", s, "ok", <<>>)
                    /\ Authorize(resp'.caller, {"FINANCE_TEAM", "ADMIN"}))
                   => /\ resp'.code = 200
                      /\ budgetApproval'["w1"] =
                            Append(budgetApproval["w1"], ApprovalRow(resp'.caller, s, "ok"))
                      /\ workshop'["w1"].status = s
          /\ resp'.op = "submitBudgetEvent"
             => \A r \in MailSubmitRequests :
                   (/\ r[1] = resp'.caller
                    /\ SubmitBudgetEvent(r[1], r[2], r[3])
                    /\ SubmitBodyValid(r[3]))
                   => /\ resp'.code = 200
                      /\ \A i \in 1..Len(r[3]) :
                            /\ <<r[2], r[3][i].categoryId>> \in DOMAIN budget'
                            /\ budget'[<<r[2], r[3][i].categoryId>>].amount = r[3][i].amount
          /\ resp'.op = "createEvent"
             => \A body \in CreateBodies :
                   (/\ CreateEvent(resp'.caller, body)
                    /\ Authorize(resp'.caller, {"EVENT_TEAM_LEAD", "ADMIN"})
                    /\ CreateBodyValid(body)
                    /\ "coordinatorEmail" \in DOMAIN body
                    /\ FindCoordinator(body.coordinatorEmail, "EVENT_COORDINATOR") # {})
                   => /\ resp'.code = 201
                      /\ \E id \in resp'.out :
                            /\ id \notin DOMAIN event
                            /\ id \in DOMAIN event'
                            /\ event'[id].coordinatorId = body.coordinatorEmail]_vars

\* C15 witness: with the mail transport down, e1 was rejected by a review
\* answered 200 after an event with a coordinator to notify was created.
C15_Witness ==
  /\ smtp = "down"
  /\ resp.op = "reviewBudgetEvent" /\ resp.code = 200
  /\ budgetApproval["e1"] # <<>>
  /\ event["e1"].status = "REJECTED"
  /\ "e3" \in DOMAIN event
  /\ event["e3"].coordinatorId = "ecd"
  /\ <<"e1", "c1">> \in DOMAIN budget

\* C16: an assign-venue request that passes the early returns for a dated
\* bookable while one of the route's two conflict queries returns a row is
\* answered 409 'Venue conflict detected', and the step leaves every event
\* and workshop row (the candidate's venueId with them) and the activity log
\* as they were.
C16_ConflictChangesNothing ==
  [][/\ resp'.op = "assignVenueEvent"
        => \A id \in EventIds, v \in VenueIds :
              (/\ resp'.caller \in VenueCallers
               /\ event[id].status = "APPROVED"
               /\ Dated(event[id])
               /\ EventConflictingEvents(id, v, event[id].startDate, event[id].endDate)
                    \cup EventConflictingWorkshops(v, event[id].startDate, event[id].endDate) # {}
               /\ AssignVenueEvent(resp'.caller, id, v))
              => /\ resp'.code = 409
                 /\ resp'.error = "Venue conflict detected"
                 /\ event'[id].venueId = event[id].venueId
                 /\ event' = event /\ workshop' = workshop
                 /\ activityLog' = activityLog
     /\ resp'.op = "assignVenueWorkshop"
        => \A id \in WorkshopIds, v \in VenueIds :
              (/\ resp'.caller \in VenueCallers
               /\ workshop[id].status = "APPROVED"
               /\ Dated(workshop[id])
               /\ WorkshopConflictingWorkshops(id, v, workshop[id].startDate, workshop[id].endDate)
                    \cup WorkshopConflictingEvents(v, workshop[id].startDate, workshop[id].endDate) # {}
               /\ AssignVenueWorkshop(resp'.caller, id, v))
              => /\ resp'.code = 409
                 /\ resp'.error = "Venue conflict detected"
                 /\ workshop'[id].venueId = workshop[id].venueId
                 /\ event' = event /\ workshop' = workshop
                 /\ activityLog' = activityLog]_vars

\* C16 witness: assign-venue was answered 409 for the workshop w1, APPROVED
\* and still without a venue, because of the event e1 that holds the venue;
\* no ASSIGN_VENUE entry names w1.
C16_Witness ==
  /\ resp.op = "assignVenueWorkshop" /\ resp.code = 409
  /\ resp.out = {"e1"}
  /\ workshop["w1"].status = "APPROVED" /\ workshop["w1"].venueId = NULL
  /\ event["e1"].venueId # NULL
  /\ \A i \in 1..Len(activityLog) : activityLog[i].entityId # "w1"

\* C17: a valid update of a stored bookable by a team lead of the route's
\* role who did not create it, a review by a caller who is neither finance
\* nor admin, and a delete of a bookable or of a user by a caller who is not
\* admin are each answered 403, and the step leaves the events, workshops,
\* budget lines, approvals, expenses, activity log and users as they were.
C17_PermissionFailureChangesNothing ==
  [][/\ (resp'.op = "updateEvent" /\ RoleOf(resp'.caller) = "EVENT_TEAM_LEAD")
        => \A id \in DOMAIN event, body \in GuardBodies :
              (/\ event[id].creatorId # resp'.caller
               /\ UpdateBodyValid(body)
               /\ UpdateEvent(resp'.caller, id, body))
              => resp'.code = 403 /\ resp'.error = "Access denied" /\ db' = db
     /\ (resp'.op = "updateWorkshop" /\ RoleOf(resp'.caller) = "WORKSHOP_TEAM_LEAD")
        => \A id \in DOMAIN workshop, body \in GuardBodies :
              (/\ workshop[id].creatorId # resp'.caller
               /\ UpdateBodyValid(body)
               /\ UpdateWorkshop(resp'.caller, id, body))
              => resp'.code = 403 /\ resp'.error = "Access denied" /\ db' = db
     /\ (/\ resp'.op \in {"reviewBudgetEvent", "reviewBudgetWorkshop"}
         /\ RoleOf(resp'.caller) \notin {"FINANCE_TEAM", "ADMIN"})
        => resp'.code = 403 /\ db' = db
     /\ (/\ resp'.op \in {"deleteEvent", "deleteWorkshop", "deleteUser"}
         /\ RoleOf(resp'.caller) # "ADMIN")
        => resp'.code = 403 /\ db' = db
     /\ resp'.code = 403 => db' = db]_vars

\* C17 witness: the team lead etl2 was refused on e1, which etl1 created and
\* edited and which has a budget line, an expense and a REJECTED review.
C17_Witness ==
  /\ resp.op = "updateEvent" /\ resp.caller = "etl2"
  /\ resp.code = 403 /\ resp.error = "Access denied"
  /\ event["e1"].creatorId = "etl1" /\ event["e1"].title = "t1"
  /\ event["e1"].status = "REJECTED"
  /\ <<"e1", "c1">> \in DOMAIN budget
  /\ expense # {}

\* A budgets value that is not an array, or a line with a negative amount.
MalformedLines(lines) ==
  \/ DOMAIN lines # 1..Cardinality(DOMAIN lines)
  \/ \E i \in DOMAIN lines : lines[i].amount < 0

\* C18: a budget submit or a review by a caller of the route's allow-list is
\* answered 400 'Invalid input' when the body is malformed (budgets not an
\* array or a negative amount; a decision other than APPROVED or REJECTED or
\* empty remarks), and 404 'Event not found' when the body is well-formed and
\* the id names no event; in both cases every table is left as it was.
C18_NotFoundAndInvalidChangeNothing ==
  [][/\ (/\ resp'.op = "submitBudgetEvent"
         /\ RoleOf(resp'.caller) \in {"EVENT_TEAM_LEAD", "FINANCE_TEAM", "ADMIN"})
        => \A r \in SubmitRequests :
              SubmitBudgetEvent(resp'.caller, r[2], r[3])
              => IF MalformedLines(r[3])
                   THEN resp'.code = 400 /\ resp'.error = "Invalid input" /\ db' = db
                 ELSE r[2] \notin DOMAIN event
                      => resp'.code = 404 /\ resp'.error = "Event not found" /\ db' = db
     /\ (resp'.op = "reviewBudgetEvent" /\ RoleOf(resp'.caller) \in {"FINANCE_TEAM", "ADMIN"})
        => \A r \in ReviewRequests :
              ReviewBudgetEvent(resp'.caller, r[2], r[3], r[4], r[5])
              => IF r[3] \notin {"APPROVED", "REJECTED"} \/ r[4] = ""
                   THEN resp'.code = 400 /\ resp'.error = "Invalid input" /\ db' = db
                 ELSE r[2] \notin DOMAIN event
                      => resp'.code = 404 /\ resp'.error = "Event not found" /\ db' = db]_vars

\* C18 witness: a malformed submit was answered 400 while e1 holds the budget
\* line with the largest amount and a review.
C18_Witness ==
  /\ resp.op = "submitBudgetEvent" /\ resp.code = 400 /\ resp.error = "Invalid input"
  /\ <<"e1", "c1">> \in DOMAIN budget
  /\ budget[<<"e1", "c1">>].amount = MaxAmount
  /\ budgetApproval["e1"] # <<>>

\* The stored bookables other than the request's own that hold the
\* request's venue, are PENDING or APPROVED and overlap its interval.
StoredConflicts(p) ==
  {x \in (DOMAIN event \cup DOMAIN workshop) \ {p.id} :
     /\ Row(x).venueId = p.venueId
     /\ Row(x).status \in ActiveStatuses
     /\ Dated(Row(x)) /\ Dated(Row(p.id))
     /\ Overlap(Row(p.id).startDate, Row(p.id).endDate, Row(x).startDate, Row(x).endDate)}

\* C19: the update of an assign-venue request that passed its conflict
\* queries is carried out and answered 200 also when, by the time of the
\* update, another bookable with an overlapping interval holds the same
\* venue: the queries are not run again with the write.
C19_WriteFollowsStaleQuery ==
  [][\A p \in pending :
        (StoredConflicts(p) # {} /\ AssignVenueWrite(p))
        => /\ resp'.code = 200
           /\ RowNext(p.id).venueId = p.venueId
           /\ Len(activityLog') = Len(activityLog) + 1]_vars

\* C19 witness: two distinct APPROVED bookables with overlapping intervals
\* hold the same venue, each with its ASSIGN_VENUE entry whose old venueId is
\* null: both requests ran their queries before either update.
C19_Witness ==
  /\ resp.code = 200
  /\ pending = {}
  /\ \E a \in BookableIds, b \in BookableIds :
        /\ a # b
        /\ Row(a).status = "APPROVED" /\ Row(b).status = "APPROVED"
        /\ Row(a).venueId # NULL /\ Row(a).venueId = Row(b).venueId
        /\ Overlap(Row(a).startDate, Row(a).endDate, Row(b).startDate, Row(b).endDate)
        /\ \E i, j \in 1..Len(activityLog) :
              /\ activityLog[i].entityId = a /\ activityLog[j].entityId = b
              /\ activityLog[i].action = "ASSIGN_VENUE" /\ activityLog[j].action = "ASSIGN_VENUE"
              /\ activityLog[i].oldValues = NULL /\ activityLog[j].oldValues = NULL

\* C20: once the creator of a rejected bookable has edited it and a budget
\* submit of the creator for it has succeeded, the bookable's status is
\* PENDING. (No review runs in this specification and the bookables start
\* REJECTED with the title "t0", so the title "t1" is an edit made after the
\* rejection.)
C20_ResubmitReturnsToPending ==
  /\ (resp.op = "submitBudgetEvent" /\ resp.code = 200 /\ event["e1"].title = "t1")
     => event["e1"].status = "PENDING"
  /\ (resp.op = "submitBudgetWorkshop" /\ resp.code = 200 /\ workshop["w1"].title = "t1")
     => workshop["w1"].status = "PENDING"

\* C21: every budget submit by a permitted caller for a stored event, with
\* a well-formed body whose lines name existing categories (one of them
\* possibly more than once), is answered 200, and afterwards every category
\* of the body has its budget line stored for the event.
C21_SubmitStoresEveryCategory ==
  [][(/\ resp'.op = "submitBudgetEvent"
      /\ RoleOf(resp'.caller) \in {"EVENT_TEAM_LEAD", "FINANCE_TEAM", "ADMIN"})
       => \A r \in SubmitRequests :
             (/\ SubmitBodyValid(r[3])
              /\ SubmitWritable(r[3])
              /\ r[2] \in DOMAIN event
              /\ SubmitBudgetEvent(resp'.caller, r[2], r[3]))
             => /\ resp'.code = 200
                /\ \A i \in 1..Len(r[3]) : <<r[2], r[3][i].categoryId>> \in DOMAIN budget']_vars

\* C22: assign-venue by a caller of the allow-list, for an APPROVED bookable
\* whose startDate or endDate is null and with the id of an existing venue,
\* is answered 200 and writes the venue id, whatever other bookables hold
\* that venue.
C22_NullDateSkipsConflictCheck ==
  [][/\ resp'.op = "assignVenueEvent"
        => \A id \in EventIds, v \in VenueIds :
              (/\ resp'.caller \in VenueCallers
               /\ event[id].status = "APPROVED"
               /\ (event[id].startDate = NoDate \/ event[id].endDate = NoDate)
               /\ AssignVenueEvent(resp'.caller, id, v))
              => /\ resp'.code = 200
                 /\ event'[id].venueId = v
     /\ resp'.op = "assignVenueWorkshop"
        => \A id \in WorkshopIds, v \in VenueIds :
              (/\ resp'.caller \in VenueCallers
               /\ workshop[id].status = "APPROVED"
               /\ (workshop[id].startDate = NoDate \/ workshop[id].endDate = NoDate)
               /\ AssignVenueWorkshop(resp'.caller, id, v))
              => /\ resp'.code = 200
                 /\ workshop'[id].venueId = v]_vars

\* C22 witness: e2, starting on day 2 with no end date, was assigned the
\* venue that the APPROVED e1, on days 1..2, holds.
C22_Witness ==
  /\ resp.op = "assignVenueEvent" /\ resp.code = 200 /\ resp.out = {"e2"}
  /\ event["e2"].startDate = 2 /\ event["e2"].endDate = NoDate
  /\ event["e2"].venueId # NULL
  /\ event["e1"].venueId = event["e2"].venueId
  /\ event["e1"].status = "APPROVED"

\* The bookables of both kinds other than the candidate that reference the
\* venue, are APPROVED or PENDING and overlap the candidate's interval.
ComparisonSet(id, v) ==
  {x \in (DOMAIN event \cup DOMAIN workshop) \ {id} :
     /\ Row(x).venueId = v
     /\ Row(x).status \in {"APPROVED", "PENDING"}
     /\ Dated(Row(x))
     /\ Overlap(Row(id).startDate, Row(id).endDate, Row(x).startDate, Row(x).endDate)}

\* C23: assign-venue for an APPROVED, dated bookable and an existing venue is
\* answered 409 exactly when some other bookable of either kind references
\* that venue, is APPROVED or PENDING and overlaps the candidate, and the
\* rows it names are among those; otherwise it is answered 200. A REJECTED
\* or COMPLETED holder of the venue, and the candidate's own record, never
\* make it a conflict.
C23_ComparisonSetScope ==
  [][/\ resp'.op = "assignVenueEvent"
        => \A id \in EventIds, v \in VenueIds :
              (/\ resp'.caller \in VenueCallers
               /\ event[id].status = "APPROVED"
               /\ Dated(event[id])
               /\ AssignVenueEvent(resp'.caller, id, v))
              => /\ resp'.code = 409 <=> ComparisonSet(id, v) # {}
                 /\ resp'.code = 200 <=> ComparisonSet(id, v) = {}
                 /\ resp'.code = 409 => resp'.out \subseteq ComparisonSet(id, v)
     /\ resp'.op = "assignVenueWorkshop"
        => \A id \in WorkshopIds, v \in VenueIds :
              (/\ resp'.caller \in VenueCallers
               /\ workshop[id].status = "APPROVED"
               /\ Dated(workshop[id])
               /\ AssignVenueWorkshop(resp'.caller, id, v))
              => /\ resp'.code = 409 <=> ComparisonSet(id, v) # {}
                 /\ resp'.code = 200 <=> ComparisonSet(id, v) = {}
                 /\ resp'.code = 409 => resp'.out \subseteq ComparisonSet(id, v)]_vars

\* C23 witness: the candidate e2 was refused for the PENDING workshop w1
\* alone, while the REJECTED event e1 holds the same venue on overlapping
\* days.
C23_Witness ==
  /\ resp.op = "assignVenueEvent" /\ resp.code = 409 /\ resp.out = {"w1"}
  /\ event["e2"].status = "APPROVED" /\ event["e2"].venueId = NULL
  /\ event["e1"].status = "REJECTED"
  /\ workshop["w1"].status = "PENDING"
  /\ event["e1"].venueId # NULL /\ event["e1"].venueId = workshop["w1"].venueId

\* C24: when assign-venue for an APPROVED, dated bookable is answered 409,
\* the rows it lists are all the bookables of both kinds on the venue that
\* are APPROVED or PENDING and overlap the candidate.
C24_ConflictListIsComplete ==
  [][/\ (resp'.op = "assignVenueEvent" /\ resp'.code = 409)
        => \A id \in EventIds, v \in VenueIds :
              (/\ resp'.caller \in VenueCallers
               /\ event[id].status = "APPROVED"
               /\ Dated(event[id])
               /\ AssignVenueEvent(resp'.caller, id, v))
              => resp'.out = ComparisonSet(id, v)
     /\ (resp'.op = "assignVenueWorkshop" /\ resp'.code = 409)
        => \A id \in WorkshopIds, v \in VenueIds :
              (/\ resp'.caller \in VenueCallers
               /\ workshop[id].status = "APPROVED"
               /\ Dated(workshop[id])
               /\ AssignVenueWorkshop(resp'.caller, id, v))
              => resp'.out = ComparisonSet(id, v)]_vars

\* C25: where assign-venue is the only writer of venue ids, in every
\* reachable state each bookable that holds a venue has an ASSIGN_VENUE
\* audit entry for that bookable whose newValues is the venue it holds.
C25_VenueChangeIsAudited ==
  \A id \in BookableIds :
     Row(id).venueId # NULL
     => \E i \in 1..Len(activityLog) :
           /\ activityLog[i].action = "ASSIGN_VENUE"
           /\ activityLog[i].entityId = id
           /\ activityLog[i].newValues = Row(id).venueId

\* C26: a budget submit, of events or of workshops, by any caller and with
\* any outcome, leaves every event row and every workshop row (their status
\* with them) and every approval history as they were.
C26_SubmitKeepsStatus ==
  [][resp'.op \in {"submitBudgetEvent", "submitBudgetWorkshop"}
       => /\ \A id \in DOMAIN event : event'[id].status = event[id].status
          /\ \A id \in DOMAIN workshop : workshop'[id].status = workshop[id].status
          /\ event' = event /\ workshop' = workshop
          /\ budgetApproval' = budgetApproval]_vars

\* C26 witness: a submit for the COMPLETED workshop w1 succeeded and stored
\* its line, a submit for the event e1 has stored a line too, and e1 is
\* still REJECTED with its one review.
C26_Witness ==
  /\ resp.op = "submitBudgetWorkshop" /\ resp.code = 200
  /\ workshop["w1"].status = "COMPLETED"
  /\ <<"w1", "c1">> \in DOMAIN budget
  /\ <<"e1", "c1">> \in DOMAIN budget
  /\ event["e1"].status = "REJECTED"
  /\ Len(budgetApproval["e1"]) = 1

\* C27: once no review is in flight, a bookable whose history holds two
\* approval rows with different decisions has the status of the later row.
C27_LatestReviewDictatesStatus ==
  \A id \in BookableIds :
     (/\ pending = {}
      /\ Len(budgetApproval[id]) = 2
      /\ budgetApproval[id][1].status # budgetApproval[id][2].status)
     => Row(id).status = budgetApproval[id][2].status

\* C28: in sequential runs of assign-venue on bookables with fixed ordered
\* dates and fixed statuses, a request is answered 200 only if no other
\* APPROVED or PENDING bookable of either kind on the venue overlaps the
\* candidate, and after every step no two APPROVED bookables on one venue
\* overlap.
C28_SequentialNoDoubleBooking ==
  [][/\ \A p \in pending :
          (AssignVenueWrite(p) /\ resp'.code = 200) => ComparisonSet(p.id, p.venueId) = {}
     /\ \A a \in BookableIds, b \in BookableIds :
          (/\ a # b
           /\ RowNext(a).status = "APPROVED" /\ RowNext(b).status = "APPROVED"
           /\ RowNext(a).venueId # NULL
           /\ RowNext(a).venueId = RowNext(b).venueId
           /\ Dated(RowNext(a)) /\ Dated(RowNext(b)))
          => ~Overlap(RowNext(a).startDate, RowNext(a).endDate,
                      RowNext(b).startDate, RowNext(b).endDate)]_vars

\* C28 witness: e1 on days 1..2 and e2 on the last day hold the same venue,
\* each by its own ASSIGN_VENUE entry, and the workshop w1 on day 2 was then
\* refused that venue.
C28_Witness ==
  /\ resp.op = "assignVenueWorkshop" /\ resp.code = 409 /\ resp.out = {"e1"}
  /\ event["e1"].venueId # NULL /\ event["e1"].venueId = event["e2"].venueId
  /\ event["e2"].startDate = MaxDate
  /\ workshop["w1"].status = "APPROVED" /\ workshop["w1"].venueId = NULL
  /\ Len(activityLog) = 2
  /\ {activityLog[1].entityId, activityLog[2].entityId} = {"e1", "e2"}

\* C29: every step in which the update of a team lead changes the row of a
\* bookable starts in a state where that bookable is neither APPROVED nor
\* COMPLETED.
C29_TeamLeadWriteSeesGuardedStatus ==
  [][\A p \in pending :
        (/\ RoleOf(p.caller) \in LeadRoles
         /\ UpdateWrite(p)
         /\ RowNext(p.id) # Row(p.id))
        => Row(p.id).status \notin {"APPROVED", "COMPLETED"}]_vars

\* C30: a successful budget submit leaves the approvedAmount of every stored
\* line as it was, and for every line whose approvedAmount a review has set,
\* the summary's budgetAmount after the submit is that approvedAmount.
C30_ResubmitKeepsApprovedBudget ==
  [][(resp'.op = "submitBudgetEvent" /\ resp'.code = 200)
       => \A k \in DOMAIN budget :
             /\ budget'[k].approvedAmount = budget[k].approvedAmount
             /\ budget[k].approvedAmount # NoAmount
                => SummaryLine(k[1], k[2])'.budgetAmount = budget[k].approvedAmount]_vars

====
